---------------------------- MODULE Spec2Model ----------------------------
(***************************************************************************)
(* agentenv: the relational data exporter (internal/database/export.go)    *)
(* and the `agentenv export` command that drives it (cmd/export.go).       *)
(*                                                                         *)
(* The exporter walks the foreign-key graph of a live PostgreSQL database  *)
(* depth first from a root row.  The database is an input: a scenario      *)
(* (schema shape, column types, connection behaviour) and the contents of  *)
(* table "a" are drawn in Init and stay unchanged during one export.       *)
(*                                                                         *)
(*   table a (id, f, g)   f -> a(id)    g -> a(id) | b(id) | b(u)          *)
(*   table b (id, u)      no outbound foreign keys, u unique               *)
(***************************************************************************)
EXTENDS Integers, Sequences, FiniteSets, TLC

(***************************************************************************)
(* Bounds of the model.                                                    *)
(***************************************************************************)
\* identifiers of the rows of each table are 1..MaxId
MaxId == 2
\* connection errors injected during one export (flaky scenario only)
MaxFailures == 1
\* length of the strings handed to formatValue
MaxStrLen == 2
\* number of records handed to GenerateSQL
MaxRecords == 2
\* the number of Export calls made on one Exporter
MaxCalls == 2
\* the number of agent ids given to up and down
MaxAgents == 3
\* the number of commands that run at the same time
MaxProcs == 2

Ids == 1..MaxId

Min == CHOOSE i \in Ids : \A j \in Ids : i <= j

(***************************************************************************)
(* Text.  A Go string is a sequence of one-character strings, so that      *)
(* formatting, parsing and concatenation are computed, not assumed.        *)
(***************************************************************************)
DigitChars == <<"0", "1", "2", "3", "4", "5", "6", "7", "8", "9">>

RECURSIVE Itoa(_)
\* decimal rendering of a non-negative integer (fmt %v of an int / int64)
Itoa(n) ==
    IF n < 10 THEN <<DigitChars[n + 1]>>
    ELSE Itoa(n \div 10) \o <<DigitChars[(n % 10) + 1]>>

DigitValue(c) == CHOOSE d \in 0..9 : DigitChars[d + 1] = c

IsDigit(c) == \E d \in 0..9 : DigitChars[d + 1] = c

\* strconv.Atoi succeeds on a non-empty string of decimal digits
\* (the model's command lines carry no sign)
AtoiOk(s) == Len(s) > 0 /\ \A i \in 1..Len(s) : IsDigit(s[i])

RECURSIVE AtoiValue(_)
AtoiValue(s) ==
    IF Len(s) = 0 THEN 0
    ELSE 10 * AtoiValue(SubSeq(s, 1, Len(s) - 1)) + DigitValue(s[Len(s)])

\* byte values of the characters that occur in identifiers
CharCode(c) ==
    IF IsDigit(c) THEN 48 + DigitValue(c)
    ELSE IF c = "u" THEN 117
    ELSE IF c = ":" THEN 58
    ELSE IF c = "a" THEN 97
    ELSE IF c = "b" THEN 98
    ELSE 122

RECURSIVE JoinCodes(_)
\* the elements of a byte slice as fmt prints them: decimal, space separated
JoinCodes(s) ==
    IF Len(s) = 0 THEN <<>>
    ELSE IF Len(s) = 1 THEN Itoa(CharCode(s[1]))
    ELSE Itoa(CharCode(s[1])) \o <<" ">> \o JoinCodes(Tail(s))

(***************************************************************************)
(* Values: what interface{} holds for an id or a column value.             *)
(***************************************************************************)
NULL == [k |-> "nil", n |-> 0, s |-> <<>>]
IntV(n) == [k |-> "int", n |-> n, s |-> <<>>]
StrV(s) == [k |-> "string", n |-> 0, s |-> s]
BytesV(s) == [k |-> "bytes", n |-> 0, s |-> s]

\* fmt.Sprintf("%v", v)
Sprintv(v) ==
    CASE v.k = "int" -> Itoa(v.n)
      [] v.k = "string" -> v.s
      [] v.k = "bytes" -> <<"[">> \o JoinCodes(v.s) \o <<"]">>
      [] OTHER -> <<"<", "n", "i", "l", ">">>

\* the characters of a table name
TableChars(t) ==
    CASE t = "a" -> <<"a">>
      [] t = "b" -> <<"b">>
      [] OTHER -> <<"z", "z">>

\* recordKey := fmt.Sprintf("%s:%v", table, id)
RecordKey(table, id) == TableChars(table) \o <<":">> \o Sprintv(id)

(***************************************************************************)
(* Script generator.                                                       *)
(***************************************************************************)
Quote == "'"

Backslash == "\\"

\* the characters of the strings a column may hold: a single quote, a
\* backslash and an ordinary character
Alphabet == {Quote, Backslash, "x"}

BoolV(b) == [k |-> "bool", n |-> IF b THEN 1 ELSE 0, s |-> <<>>]

\* a finite float64 holds n tenths; NaN and the infinities carry the name
\* strconv gives them
FloatV(n) == [k |-> "float", n |-> n, s |-> <<>>]

NaN == [k |-> "float", n |-> 0, s |-> <<"N", "a", "N">>]

PosInf == [k |-> "float", n |-> 0, s |-> <<"+", "I", "n", "f">>]

\* a time.Time in UTC, n tenths of a second after 2024-01-02T03:04:00Z
TimeV(n) == [k |-> "time", n |-> n, s |-> <<>>]

\* a value of a type the switch of formatValue does not list (an unsigned
\* integer)
UintV(n) == [k |-> "uint", n |-> n, s |-> <<>>]

\* only the first occurrence replaced
RECURSIVE ReplaceFirst(_, _, _)
ReplaceFirst(s, old, new) ==
    IF Len(s) = 0 THEN <<>>
    ELSE IF s[1] = old THEN new \o Tail(s)
    ELSE <<s[1]>> \o ReplaceFirst(Tail(s), old, new)

RECURSIVE ReplaceAll(_, _, _)
\* strings.ReplaceAll(s, old, new) for a one-character old
ReplaceAll(s, old, new) ==
    IF Len(s) = 0 THEN <<>>
    ELSE (IF s[1] = old THEN new ELSE <<s[1]>>) \o ReplaceAll(Tail(s), old, new)

escapeSQLString(s) ==
    ReplaceAll(ReplaceAll(s, Backslash, <<Backslash, Backslash>>),
               Quote, <<Quote, Quote>>)

\* fmt.Sprintf("'%s'", s)
Quoted(s) == <<Quote>> \o s \o <<Quote>>

\* fmt %v of a signed integer
FormatInt(n) == IF n < 0 THEN <<"-">> \o Itoa(0 - n) ELSE Itoa(n)

\* fmt %v of a float64: the shortest decimal that reads back, or the name
\* of a value that is not finite
FormatFloat(v) ==
    IF v.s # <<>> THEN v.s
    ELSE LET m == IF v.n < 0 THEN 0 - v.n ELSE v.n
         IN  (IF v.n < 0 THEN <<"-">> ELSE <<>>)
             \o Itoa(m \div 10)
             \o (IF m % 10 = 0 THEN <<>> ELSE <<".">> \o Itoa(m % 10))

\* v.Format(time.RFC3339): whole seconds, the fraction is not printed
FormatRFC3339(v) ==
    LET sec == (v.n \div 10) % 60
    IN  <<"2", "0", "2", "4", "-", "0", "1", "-", "0", "2", "T", "0", "3", ":", "0", "4", ":">> \o (IF sec < 10 THEN <<"0">> ELSE <<>>) \o Itoa(sec) \o <<"Z">>

NullKeyword == <<"N", "U", "L", "L">>

formatValue(val) ==
    CASE val.k = "nil" -> NullKeyword
      [] val.k = "bytes" -> Quoted(escapeSQLString(val.s))
      [] val.k = "string" -> Quoted(escapeSQLString(val.s))
      [] val.k = "bool" -> IF val.n = 1 THEN <<"t", "r", "u", "e">> ELSE <<"f", "a", "l", "s", "e">>
      [] val.k = "int" -> FormatInt(val.n)
      [] val.k = "float" -> FormatFloat(val)
      [] val.k = "time" -> Quoted(FormatRFC3339(val))
      [] OTHER -> Quoted(escapeSQLString(Itoa(val.n)))

\* the characters of a column name
ColumnChars(c) ==
    CASE c = "id" -> <<"i", "d">>
      [] c = "f" -> <<"f">>
      [] c = "g" -> <<"g">>
      [] OTHER -> <<"u">>

RECURSIVE Join(_, _)
\* strings.Join
Join(parts, sep) ==
    IF Len(parts) = 0 THEN <<>>
    ELSE IF Len(parts) = 1 THEN parts[1]
    ELSE parts[1] \o sep \o Join(Tail(parts), sep)

\* time.Now().Format(time.RFC3339): some instant, no property depends on it
GeneratedAt == <<"2", "0", "2", "4", "-", "0", "1", "-", "0", "2", "T", "0", "3", ":", "0", "4", ":", "0", "5", "Z">>

Header ==
    <<"-", "-", " ", "D", "a", "t", "a", "b", "a", "s", "e", " ", "e", "x", "p", "o", "r", "t", " ", "g", "e", "n", "e", "r", "a", "t", "e", "d", " ", "b", "y", " ", "a", "g", "e", "n", "t", "e", "n", "v", "\n">>
    \o <<"-", "-", " ", "G", "e", "n", "e", "r", "a", "t", "e", "d", " ", "a", "t", ":", " ">> \o GeneratedAt \o <<"\n", "\n">>
    \o <<"B", "E", "G", "I", "N", ";", "\n", "\n">>

\* the block without its conflict clause
InsertBlockPlain(record) ==
    <<"I", "N", "S", "E", "R", "T", " ", "I", "N", "T", "O", " ">> \o TableChars(record.Table) \o <<" ", "(">>
    \o Join([j \in 1..Len(record.Columns) |-> ColumnChars(record.Columns[j])], <<",", " ">>)
    \o <<")", "\n">>
    \o <<"V", "A", "L", "U", "E", "S", " ", "(">>
    \o Join([j \in 1..Len(record.Values) |-> formatValue(record.Values[j])], <<",", " ">>)
    \o <<")", ";", "\n", "\n">>

\* the three lines written for one record
InsertBlock(record) ==
    <<"I", "N", "S", "E", "R", "T", " ", "I", "N", "T", "O", " ">> \o TableChars(record.Table) \o <<" ", "(">>
    \o Join([j \in 1..Len(record.Columns) |-> ColumnChars(record.Columns[j])], <<",", " ">>)
    \o <<")", "\n">>
    \o <<"V", "A", "L", "U", "E", "S", " ", "(">>
    \o Join([j \in 1..Len(record.Values) |-> formatValue(record.Values[j])], <<",", " ">>)
    \o <<")", "\n">>
    \o <<"O", "N", " ", "C", "O", "N", "F", "L", "I", "C", "T", " ", "D", "O", " ", "N", "O", "T", "H", "I", "N", "G", ";", "\n", "\n">>

RECURSIVE InsertBlocks(_)
InsertBlocks(recs) ==
    IF Len(recs) = 0 THEN <<>>
    ELSE InsertBlock(recs[1]) \o InsertBlocks(Tail(recs))

NoScript == [written |-> FALSE, err |-> FALSE, text |-> <<>>]

\* GenerateSQL: what it wrote to the writer, and whether it returned an
\* error (it has one return statement: return nil)
GenerateSQL(recs) ==
    [written |-> TRUE, err |-> FALSE,
     text |-> Header \o InsertBlocks(recs) \o <<"C", "O", "M", "M", "I", "T", ";", "\n">>]

(***************************************************************************)
(* The target engine: the part of PostgreSQL's lexer and grammar that a    *)
(* generated script exercises.  scs is standard_conforming_strings: on     *)
(* (the default since PostgreSQL 9.1) a backslash in a '...' literal is an *)
(* ordinary character, off it starts an escape.                            *)
(***************************************************************************)
StandardConformingStrings == {TRUE, FALSE}

IsSpace(c) == c \in {" ", "\n"}

IsPunct(c) == c \in {"(", ")", ",", ";"}

IsDelimiter(c) == IsSpace(c) \/ IsPunct(c) \/ c = Quote

\* the end of the line position i is on
LineEnd(text, i) ==
    IF \E j \in i..Len(text) : text[j] = "\n"
    THEN CHOOSE j \in i..Len(text) :
            text[j] = "\n" /\ \A m \in i..(j - 1) : text[m] # "\n"
    ELSE Len(text)

\* the last character of the word that starts at position i
WordEnd(text, i) ==
    IF \E j \in i..Len(text) : IsDelimiter(text[j])
    THEN (CHOOSE j \in i..Len(text) :
            IsDelimiter(text[j]) /\ \A m \in i..(j - 1) : ~IsDelimiter(text[m])) - 1
    ELSE Len(text)

\* the character a backslash escape stands for
Unescape(c) == IF c = "n" THEN "\n" ELSE c

RECURSIVE ReadString(_, _, _)
\* the rest of a string literal from position i on: the characters it
\* denotes, the position after its closing quote, and whether it is closed
ReadString(text, i, scs) ==
    IF i > Len(text) THEN [val |-> <<>>, next |-> i, closed |-> FALSE]
    ELSE IF text[i] = Quote
    THEN IF i < Len(text) /\ text[i + 1] = Quote
         THEN LET r == ReadString(text, i + 2, scs)
              IN  [r EXCEPT !.val = <<Quote>> \o @]
         ELSE [val |-> <<>>, next |-> i + 1, closed |-> TRUE]
    ELSE IF text[i] = Backslash /\ ~scs
    THEN IF i < Len(text)
         THEN LET r == ReadString(text, i + 2, scs)
              IN  [r EXCEPT !.val = <<Unescape(text[i + 1])>> \o @]
         ELSE [val |-> <<>>, next |-> i + 1, closed |-> FALSE]
    ELSE LET r == ReadString(text, i + 1, scs)
         IN  [r EXCEPT !.val = <<text[i]>> \o @]

Word(w) == [t |-> "word", s |-> w]

Punct(c) == [t |-> "punct", s |-> <<c>>]

StringToken(r) == [t |-> IF r.closed THEN "string" ELSE "open", s |-> r.val]

\* the first position from i on that holds no space, or Len + 1
SkipSpaces(text, i) ==
    IF \E j \in i..Len(text) : ~IsSpace(text[j])
    THEN CHOOSE j \in i..Len(text) :
            ~IsSpace(text[j]) /\ \A m \in i..(j - 1) : IsSpace(text[m])
    ELSE Len(text) + 1

RECURSIVE LexStatement(_, _, _)
\* the tokens from position i up to the next ";" outside a literal, spaces
\* and comments dropped; the position after that ";"; whether it was found
LexStatement(text, i, scs) ==
    IF i > Len(text) THEN [toks |-> <<>>, next |-> i, ended |-> FALSE]
    ELSE IF IsSpace(text[i]) THEN LexStatement(text, SkipSpaces(text, i), scs)
    ELSE IF text[i] = "-" /\ i < Len(text) /\ text[i + 1] = "-"
    THEN LexStatement(text, LineEnd(text, i) + 1, scs)
    ELSE IF text[i] = ";" THEN [toks |-> <<>>, next |-> i + 1, ended |-> TRUE]
    ELSE IF text[i] = Quote
    THEN LET r == ReadString(text, i + 1, scs)
             rest == LexStatement(text, r.next, scs)
         IN  [rest EXCEPT !.toks = <<StringToken(r)>> \o @]
    ELSE IF IsPunct(text[i])
    THEN LET rest == LexStatement(text, i + 1, scs)
         IN  [rest EXCEPT !.toks = <<Punct(text[i])>> \o @]
    ELSE LET rest == LexStatement(text, WordEnd(text, i) + 1, scs)
         IN  [rest EXCEPT !.toks = <<Word(SubSeq(text, i, WordEnd(text, i)))>> \o @]

RECURSIVE StatementsFrom(_, _, _)
StatementsFrom(text, i, scs) ==
    LET st == LexStatement(text, i, scs)
    IN  IF st.ended THEN <<st.toks>> \o StatementsFrom(text, st.next, scs)
        ELSE IF st.toks = <<>> THEN <<>> ELSE <<st.toks>>

\* the statements of a script: each the tokens before a ";"
Statements(text, scs) == StatementsFrom(text, 1, scs)

\* the position of the first token equal to tok from position i on, or
\* Len + 1
FirstAt(toks, i, tok) ==
    IF \E j \in i..Len(toks) : toks[j] = tok
    THEN CHOOSE j \in i..Len(toks) :
            toks[j] = tok /\ \A m \in i..(j - 1) : toks[m] # tok
    ELSE Len(toks) + 1

IsBegin(st) == st = <<Word(<<"B", "E", "G", "I", "N">>)>>

IsCommit(st) == st = <<Word(<<"C", "O", "M", "M", "I", "T">>)>>

\* a comma-separated list of single tokens
IsList(toks) ==
    \A j \in 1..Len(toks) :
        IF j % 2 = 1 THEN toks[j].t # "punct" ELSE toks[j] = Punct(",")

Items(toks) == [j \in 1..((Len(toks) + 1) \div 2) |-> toks[2 * j - 1]]

OnConflictDoNothing ==
    <<Word(<<"O", "N">>), Word(<<"C", "O", "N", "F", "L", "I", "C", "T">>), Word(<<"D", "O">>), Word(<<"N", "O", "T", "H", "I", "N", "G">>)>>

\* INSERT INTO table (columns) VALUES (values) [ON CONFLICT DO NOTHING]
ParseInsert(st) ==
    LET close1 == FirstAt(st, 5, Punct(")"))
        close2 == FirstAt(st, close1 + 3, Punct(")"))
        cols == SubSeq(st, 5, close1 - 1)
        vals == SubSeq(st, close1 + 3, close2 - 1)
        rest == SubSeq(st, close2 + 1, Len(st))
        ok == /\ Len(st) >= 8
              /\ st[1] = Word(<<"I", "N", "S", "E", "R", "T">>) /\ st[2] = Word(<<"I", "N", "T", "O">>)
              /\ st[3].t = "word" /\ st[4] = Punct("(")
              /\ close2 <= Len(st)
              /\ st[close1 + 1] = Word(<<"V", "A", "L", "U", "E", "S">>) /\ st[close1 + 2] = Punct("(")
              /\ IsList(cols) /\ IsList(vals)
              /\ Len(Items(cols)) = Len(Items(vals))
              /\ \A j \in 1..Len(Items(cols)) : Items(cols)[j].t = "word"
              /\ rest \in {<<>>, OnConflictDoNothing}
    IN  IF ok
        THEN [ok |-> TRUE, table |-> st[3].s,
              columns |-> [j \in 1..Len(Items(cols)) |-> Items(cols)[j].s],
              values |-> Items(vals),
              onConflict |-> rest = OnConflictDoNothing]
        ELSE [ok |-> FALSE, table |-> <<>>, columns |-> <<>>, values |-> <<>>,
              onConflict |-> FALSE]

(***************************************************************************)
(* The database engine, as seen through database/sql and lib/pq.           *)
(***************************************************************************)
VARIABLES
    env,        \* the scenario: schema shape, column type, connection
    dbA,        \* contents of table a: id -> [present, f, g]
    args,       \* the command line: [table, idStr]
    pc,         \* position of runExport: start, walking, returned, done
    root,       \* the arguments of the Export call: [table, id]
    visited,    \* Exporter.visited: the set of record keys
    records,    \* Exporter.records
    recordKeys, \* for each element of records, the key it was walked under
    stack,      \* the active exportRecord calls, innermost last
    result,     \* what Export returned: [ok, records]
    warnings,   \* the "Warning: failed to export FK" lines printed
    queries,    \* every catalog lookup and row fetch issued, in order
    failures,   \* connection errors injected so far
    exitCode,   \* exit status of the command (-1 while running)
    fileCreated,  \* os.Create made the output file
    scriptWritten \* GenerateSQL was called

\* the script generator (GenerateSQL, formatValue) on inputs of its own
VARIABLES
    sqlRecords, \* the records handed to GenerateSQL
    sqlValue,   \* the value handed to formatValue
    script,     \* what GenerateSQL wrote and returned, NoScript before the call
    formatted   \* what formatValue returned, NoText before the call

\* one Exporter used for several Export calls
VARIABLES
    exporter,   \* the Exporter's fields: visited, and records as a slice
    arrays,     \* the backing arrays of the record slices, by allocation
    calls       \* the Export calls: position, arguments, frames, result

\* the agent registry and the commands up and down
VARIABLES
    registry,   \* .agentenv/registry.json: agent name -> [PortSlot, Ports]
    config      \* .agentenv.yml: service -> the host_base of its port mappings

\* the up and down commands step by step, and what they leave on disk
VARIABLES
    outcome,    \* the last command run to its end: name, agent id, error
    procs,      \* the running commands: position, agent id, registry in memory
    worktrees,  \* the agent ids whose git worktree exists
    services    \* the agent ids whose Docker services are started

\* the state of one export command
walker == <<env, dbA, args, pc, root, visited, records, recordKeys, stack, result,
            warnings, queries, failures, exitCode, fileCreated, scriptWritten>>

generator == <<sqlRecords, sqlValue, script, formatted>>

session == <<exporter, arrays, calls>>

agents == <<registry, config>>

commands == <<outcome, procs, worktrees, services>>

\* the state outside the export command
others == <<sqlRecords, sqlValue, script, formatted, exporter, arrays, calls,
            registry, config, outcome, procs, worktrees, services>>

vars == <<env, dbA, args, pc, root, visited, records, recordKeys, stack, result,
          warnings, queries, failures, exitCode, fileCreated, scriptWritten,
          sqlRecords, sqlValue, script, formatted, exporter, arrays, calls,
          registry, config, outcome, procs, worktrees, services>>

Tables == {"a", "b"}

\* column lists in ordinal position
TableColumns(t) ==
    CASE t = "a" -> <<"id", "f", "g">>
      [] t = "b" -> <<"id", "u">>
      [] OTHER -> <<>>

\* the unique column u of table b holds a permutation of the ids
UniqueOf(i) == MaxId + 1 - i

BaseEnv ==
    [gTable |-> "a", gCol |-> "id", pkB |-> <<"id">>, idType |-> "int",
     flaky |-> FALSE, gFirst |-> FALSE]

\* the scenarios: the base schema and one departure from it at a time
Scenarios ==
    { BaseEnv,
      [BaseEnv EXCEPT !.gFirst = TRUE],
      [BaseEnv EXCEPT !.flaky = TRUE],
      [BaseEnv EXCEPT !.idType = "text"],
      [BaseEnv EXCEPT !.idType = "uuid"],
      [BaseEnv EXCEPT !.gTable = "b"],
      [BaseEnv EXCEPT !.gTable = "b", !.pkB = <<>>],
      [BaseEnv EXCEPT !.gTable = "b", !.pkB = <<"id", "u">>],
      [BaseEnv EXCEPT !.gTable = "b", !.pkB = <<"u", "id">>],
      [BaseEnv EXCEPT !.gTable = "b", !.gCol = "u"] }

AbsentRow == [present |-> FALSE, f |-> 0, g |-> 0]

\* a row of table a: its foreign-key columns hold an id or 0 for SQL NULL
RowsA == {AbsentRow} \cup [present : {TRUE}, f : 0..MaxId, g : 0..MaxId]

\* the rows of a table, each a function from column name to content
RowsOf(t) ==
    CASE t = "a" ->
           { [c \in {"id", "f", "g"} |->
                 IF c = "id" THEN i ELSE IF c = "f" THEN dbA[i].f ELSE dbA[i].g]
             : i \in {j \in Ids : dbA[j].present} }
      [] t = "b" ->
           { [c \in {"id", "u"} |-> IF c = "id" THEN i ELSE UniqueOf(i)]
             : i \in Ids }
      [] OTHER -> {}

\* the text of content i in a column of the scenario's type
IdText(i) ==
    IF env.idType = "int" THEN Itoa(i) ELSE <<"u">> \o Itoa(i)

\* what Scan stores into an interface{} destination: lib/pq decodes integer
\* columns to int64, text columns to string and hands every other type
\* (uuid, numeric, ...) over as the raw []byte
DriverValue(i) ==
    IF i = 0 THEN NULL
    ELSE CASE env.idType = "int" -> IntV(i)
           [] env.idType = "text" -> StrV(IdText(i))
           [] OTHER -> BytesV(IdText(i))

\* the text the driver sends for a query parameter
ParamText(v) == IF v.k = "int" THEN Itoa(v.n) ELSE v.s

\* WHERE col = $1
Matches(row, col, id) == row[col] # 0 /\ id.k # "nil" /\ IdText(row[col]) = ParamText(id)

MakeRecord(t, row) ==
    [Table |-> t,
     Columns |-> TableColumns(t),
     Values |-> [j \in 1..Len(TableColumns(t)) |-> DriverValue(row[TableColumns(t)[j]])]]

(***************************************************************************)
(* Schema catalog reader.                                                  *)
(***************************************************************************)
\* the columns of the primary-key index of a table, in the order in which
\* the engine lists them (the catalog query has no ORDER BY)
PkCols(t) ==
    CASE t = "a" -> <<"id">>
      [] t = "b" -> env.pkB
      [] OTHER -> <<>>

\* getPrimaryKeyColumn: QueryRow(...).Scan keeps the first row of the answer
\* and drops the others.  No row (no primary key, or a table the engine does
\* not know) is an error: the empty set here.
getPrimaryKeyColumn(t) == IF Len(PkCols(t)) = 0 THEN {} ELSE {PkCols(t)[1]}

ForeignKey(t, col, ft, fcol) ==
    [TableName |-> t, ColumnName |-> col,
     ForeignTableName |-> ft, ForeignColumnName |-> fcol]

\* getForeignKeys: the outbound constraints in the order the engine lists them
getForeignKeys(t) ==
    IF t = "a"
    THEN LET fkF == ForeignKey("a", "f", "a", "id")
             fkG == ForeignKey("a", "g", env.gTable, env.gCol)
         IN  IF env.gFirst THEN <<fkG, fkF>> ELSE <<fkF, fkG>>
    ELSE <<>>

\* fetchRecord's SELECT ... WHERE pkColumn = $1: the rows QueryRow may return
\* (it keeps the first row of the answer); the empty set is sql.ErrNoRows
fetchRecord(t, pkColumn, id) ==
    {MakeRecord(t, row) : row \in {r \in RowsOf(t) : Matches(r, pkColumn, id)}}

NoRecord == [Table |-> "", Columns |-> <<>>, Values |-> <<>>]

\* one round trip: its answer is rows ("ok"), no row ("norows") or a
\* connection error ("connerr")
Query(op, t, id, status) == [op |-> op, table |-> t, id |-> id, status |-> status]

\* the round trips of one exportRecord call that got as far as stage n,
\* the last of them ending with the given status
Trips(t, id, n, status) ==
    LET ops == <<"pk", "fk", "columns", "fetch">>
    IN  [j \in 1..n |->
            Query(ops[j], t, IF ops[j] = "fetch" THEN id ELSE NULL,
                  IF j = n THEN status ELSE "ok")]

\* a connection error may strike the next round trip
CanFail == env.flaky /\ failures < MaxFailures

Failed(kind, conn, pkc, q) ==
    [err |-> kind, conn |-> conn, q |-> q,
     pkColumn |-> pkc, foreignKeys |-> <<>>, record |-> NoRecord]

\* The part of exportRecord between marking the key visited and the loop
\* over the foreign keys: the primary-key lookup, the foreign-key lookup and
\* fetchRecord (column lookup, then the row query), each returning at the
\* first error.  The set of ways it can end for (table, id); q lists the
\* round trips issued.
Lookups(t, id) ==
    LET pks == getPrimaryKeyColumn(t)
    IN  (IF CanFail THEN {Failed("pk", TRUE, "", Trips(t, id, 1, "connerr"))} ELSE {})
        \cup
        (IF CanFail /\ pks # {}
         THEN {Failed("fk", TRUE, "", Trips(t, id, 2, "connerr")),
               Failed("fetch", TRUE, "", Trips(t, id, 3, "connerr")),
               Failed("fetch", TRUE, "", Trips(t, id, 4, "connerr"))}
         ELSE {})
        \cup
        (IF pks = {} THEN {Failed("pk", FALSE, "", Trips(t, id, 1, "norows"))}
         ELSE UNION { IF fetchRecord(t, pkc, id) = {}
                      THEN {Failed("notfound", FALSE, pkc, Trips(t, id, 4, "norows"))}
                      ELSE {[err |-> "none", conn |-> FALSE, q |-> Trips(t, id, 4, "ok"),
                             pkColumn |-> pkc, foreignKeys |-> getForeignKeys(t),
                             record |-> rec] : rec \in fetchRecord(t, pkc, id)}
                    : pkc \in pks })

(***************************************************************************)
(* Dependency walker.                                                      *)
(***************************************************************************)
Frame(t, id, o) ==
    [table |-> t, id |-> id, pkColumn |-> o.pkColumn,
     foreignKeys |-> o.foreignKeys, record |-> o.record, i |-> 1]

Top == stack[Len(stack)]

\* colIndex of the loop: the position of the column in the record, 0 for -1
ColIndex(rec, col) ==
    IF \E j \in 1..Len(rec.Columns) : rec.Columns[j] = col
    THEN CHOOSE j \in 1..Len(rec.Columns) :
            /\ rec.Columns[j] = col
            /\ \A m \in 1..(j - 1) : rec.Columns[m] # col
    ELSE 0

\* fkValue of the loop (NULL stands for "no such column" as well)
FkValue(rec, fk) ==
    IF ColIndex(rec, fk.ColumnName) = 0 THEN NULL
    ELSE rec.Values[ColIndex(rec, fk.ColumnName)]

\* only the first `continue`: a NULL value is walked like any other
SkipsMissingColumnOnly(rec, fk) == ColIndex(rec, fk.ColumnName) = 0

\* the two `continue` of the loop: column not in the record, value nil
SkipsFK(rec, fk) ==
    ColIndex(rec, fk.ColumnName) = 0 \/ FkValue(rec, fk) = NULL

InLoop == pc = "walking" /\ Len(stack) > 0 /\ Top.i <= Len(Top.foreignKeys)

CurrentFK == Top.foreignKeys[Top.i]

\* the arguments of the recursive call for the current foreign key
CalleeTable == CurrentFK.ForeignTableName

CalleeId == FkValue(Top.record, CurrentFK)

\* the caller's loop ends after one foreign key
AdvanceToEnd(st) ==
    [st EXCEPT ![Len(st)].i = Len(st[Len(st)].foreignKeys) + 1]

\* the caller's loop moves to its next foreign key
Advance(st) == [st EXCEPT ![Len(st)].i = @ + 1]

\* the visited set never consulted
NeverVisited(key) == FALSE

\* if e.visited[recordKey] { return nil }
AlreadyVisited(key) == key \in visited

\* the warning line: source table, column and target table, then the error
\* (its wrapper, and for a missing row the primary-key column and the id).
\* from and id are not printed: they record the referencing row and the
\* foreign-key value for the properties below.
Warning(frame, fk, o) ==
    [table |-> frame.table, column |-> fk.ColumnName,
     ftable |-> fk.ForeignTableName, err |-> o.err, conn |-> o.conn,
     pkColumn |-> o.pkColumn, from |-> frame.record,
     id |-> FkValue(frame.record, fk)]

\* the record put in front of the sequence instead of behind it
PrependTo(recs, rec) == <<rec>> \o recs

\* e.records = append(e.records, *record)
AppendTo(recs, rec) == Append(recs, rec)

\* the root call's error dropped: Export hands back e.records and no error
ExportResultLenient(failed, recs) == [err |-> FALSE, isNil |-> FALSE, records |-> recs]

\* what Export hands back: (nil, err) when the root call failed, else e.records
ExportResult(failed, recs) ==
    IF failed THEN [err |-> TRUE, isNil |-> TRUE, records |-> <<>>]
    ELSE [err |-> FALSE, isNil |-> FALSE, records |-> recs]

\* the id of the command line: an int when strconv.Atoi accepts it
ParseId(idStr) == IF AtoiOk(idStr) THEN IntV(AtoiValue(idStr)) ELSE StrV(idStr)

\* The guards of the steps below: each step is its guard and assignments
\* that can always be made.
CanExport == pc = "start"

CanSkipFK == InLoop /\ SkipsFK(Top.record, CurrentFK)

CanWalkVisited ==
    /\ InLoop
    /\ ~SkipsFK(Top.record, CurrentFK)
    /\ AlreadyVisited(RecordKey(CalleeTable, CalleeId))

CanWalk ==
    /\ InLoop
    /\ ~SkipsFK(Top.record, CurrentFK)
    /\ ~AlreadyVisited(RecordKey(CalleeTable, CalleeId))

CanWalkFail == CanWalk /\ \E o \in Lookups(CalleeTable, CalleeId) : o.err # "none"

CanWalkOk == CanWalk /\ \E o \in Lookups(CalleeTable, CalleeId) : o.err = "none"

CanAppendRecord ==
    pc = "walking" /\ Len(stack) > 0 /\ Top.i > Len(Top.foreignKeys)

CanFinish == pc = "returned"

\* runExport up to and including the root call of Export: the state is
\* reset, the root key is marked and the root row is looked up
Export ==
    /\ CanExport
    /\ LET t == args.table
           id == ParseId(args.idStr)
       IN  /\ visited' = {RecordKey(t, id)}
           /\ records' = <<>>
           /\ recordKeys' = <<>>
           /\ root' = [table |-> t, id |-> id]
           /\ \E o \in Lookups(t, id) :
                /\ queries' = queries \o o.q
                /\ failures' = IF o.conn THEN failures + 1 ELSE failures
                /\ \/ /\ o.err # "none"
                      /\ pc' = "returned"
                      /\ result' = ExportResult(TRUE, records')
                      /\ stack' = <<>>
                   \/ /\ o.err = "none"
                      /\ pc' = "walking"
                      /\ stack' = <<Frame(t, id, o)>>
                      /\ UNCHANGED result
    /\ UNCHANGED <<env, dbA, args, warnings, exitCode, fileCreated, scriptWritten>>
    /\ UNCHANGED others

\* a foreign key whose column is missing or whose value is NULL
SkipFK ==
    /\ CanSkipFK
    /\ stack' = Advance(stack)
    /\ UNCHANGED <<env, dbA, args, pc, root, visited, records, recordKeys, result,
                   warnings, queries, failures, exitCode, fileCreated, scriptWritten>>
    /\ UNCHANGED others

\* the recursive call finds its key in the visited set and returns nil
WalkVisited ==
    /\ CanWalkVisited
    /\ stack' = Advance(stack)
    /\ UNCHANGED <<env, dbA, args, pc, root, visited, records, recordKeys, result,
                   warnings, queries, failures, exitCode, fileCreated, scriptWritten>>
    /\ UNCHANGED others

\* the error of the recursive call returned instead of printed: every open
\* call returns it in turn and Export fails
WalkFailPropagates ==
    /\ CanWalkFail
    /\ visited' = visited \cup {RecordKey(CalleeTable, CalleeId)}
    /\ \E o \in Lookups(CalleeTable, CalleeId) :
         /\ o.err # "none"
         /\ queries' = queries \o o.q
         /\ failures' = IF o.conn THEN failures + 1 ELSE failures
    /\ stack' = <<>>
    /\ pc' = "returned"
    /\ result' = ExportResult(TRUE, records)
    /\ UNCHANGED <<env, dbA, args, root, records, recordKeys, warnings, exitCode,
                   fileCreated, scriptWritten>>
    /\ UNCHANGED others

\* the key of a failed call taken out of the visited set again
WalkFailUnmarked ==
    /\ CanWalkFail
    /\ \E o \in Lookups(CalleeTable, CalleeId) :
         /\ o.err # "none"
         /\ queries' = queries \o o.q
         /\ failures' = IF o.conn THEN failures + 1 ELSE failures
         /\ warnings' = Append(warnings, Warning(Top, CurrentFK, o))
         /\ stack' = Advance(stack)
    /\ UNCHANGED <<env, dbA, args, pc, root, visited, records, recordKeys, result,
                   exitCode, fileCreated, scriptWritten>>
    /\ UNCHANGED others

\* the recursive call marks its key, then fails: the caller prints a
\* warning and goes on with its next foreign key
WalkFail ==
    /\ CanWalkFail
    /\ visited' = visited \cup {RecordKey(CalleeTable, CalleeId)}
    /\ \E o \in Lookups(CalleeTable, CalleeId) :
         /\ o.err # "none"
         /\ queries' = queries \o o.q
         /\ failures' = IF o.conn THEN failures + 1 ELSE failures
         /\ warnings' = Append(warnings, Warning(Top, CurrentFK, o))
         /\ stack' = Advance(stack)
    /\ UNCHANGED <<env, dbA, args, pc, root, records, recordKeys, result, exitCode,
                   fileCreated, scriptWritten>>
    /\ UNCHANGED others

\* the recursive call marks its key, fetches its row and enters its own loop
WalkOk ==
    /\ CanWalkOk
    /\ visited' = visited \cup {RecordKey(CalleeTable, CalleeId)}
    /\ \E o \in Lookups(CalleeTable, CalleeId) :
         /\ o.err = "none"
         /\ queries' = queries \o o.q
         /\ stack' = Append(stack, Frame(CalleeTable, CalleeId, o))
    /\ UNCHANGED <<env, dbA, args, pc, root, records, recordKeys, result, warnings,
                   failures, exitCode, fileCreated, scriptWritten>>
    /\ UNCHANGED others

\* the loop is over: the record is appended and the call returns nil, to
\* the caller's loop or, for the root, to Export, which returns e.records
AppendRecord ==
    /\ CanAppendRecord
    /\ records' = AppendTo(records, Top.record)
    /\ recordKeys' = AppendTo(recordKeys, RecordKey(Top.table, Top.id))
    /\ IF Len(stack) = 1
       THEN /\ stack' = <<>>
            /\ pc' = "returned"
            /\ result' = ExportResult(FALSE, records')
       ELSE /\ stack' = Advance(SubSeq(stack, 1, Len(stack) - 1))
            /\ UNCHANGED <<pc, result>>
    /\ UNCHANGED <<env, dbA, args, root, visited, warnings, queries, failures,
                   exitCode, fileCreated, scriptWritten>>
    /\ UNCHANGED others

\* runExport after Export: exit 1 on an error or an empty result, else the
\* output file is created (when --output is given) and the script written
Finish ==
    /\ CanFinish
    /\ pc' = "done"
    /\ IF result.err \/ Len(result.records) = 0
       THEN /\ exitCode' = 1
            /\ UNCHANGED <<fileCreated, scriptWritten>>
       ELSE \E output \in BOOLEAN, created \in BOOLEAN :
              /\ fileCreated' = (output /\ created)
              /\ scriptWritten' = (~output \/ created)
              /\ exitCode' = IF output /\ ~created THEN 1 ELSE 0
    /\ UNCHANGED <<env, dbA, args, root, visited, records, recordKeys, stack, result,
                   warnings, queries, failures>>
    /\ UNCHANGED others

\* the command line: a table of the schema or an unknown one, and the id of
\* the first row (the rows of a table are interchangeable)
RootTables == Tables \cup {"zz"}

EmptyA == [i \in Ids |-> AbsentRow]

\* a slice of records: its backing array (0 for none), length and capacity
NoSlice == [arr |-> 0, len |-> 0, cap |-> 0]

\* no Exporter is in use
SessionIdle ==
    /\ exporter = [visited |-> {}, records |-> NoSlice]
    /\ arrays = <<>>
    /\ calls = <<>>

\* no registry and no configuration
AgentsIdle == registry = <<>> /\ config = <<>>

NoOutcome == [cmd |-> "", agentID |-> 0, err |-> ""]

\* no command has run
CommandsIdle ==
    /\ outcome = NoOutcome
    /\ procs = <<>>
    /\ worktrees = {}
    /\ services = {}

\* Table b has no outbound foreign key, so an export rooted outside table a
\* never reads table a: its contents are left empty there.
Init ==
    /\ env \in Scenarios
    /\ args \in [table : RootTables, idStr : {IdText(Min)}]
    /\ dbA \in IF args.table = "a" THEN [Ids -> RowsA] ELSE {EmptyA}
    /\ pc = "start"
    /\ root = [table |-> "", id |-> NULL]
    /\ visited = {}
    /\ records = <<>>
    /\ recordKeys = <<>>
    /\ stack = <<>>
    /\ result = [err |-> FALSE, isNil |-> TRUE, records |-> <<>>]
    /\ warnings = <<>>
    /\ queries = <<>>
    /\ failures = 0
    /\ exitCode = -1
    /\ fileCreated = FALSE
    /\ scriptWritten = FALSE
    /\ sqlRecords = <<>>
    /\ sqlValue = NULL
    /\ script = NoScript
    /\ formatted = <<>>
    /\ SessionIdle
    /\ AgentsIdle
    /\ CommandsIdle

Next ==
    \/ Export
    \/ SkipFK
    \/ WalkVisited
    \/ WalkFail
    \/ WalkOk
    \/ AppendRecord
    \/ Finish

Spec == Init /\ [][Next]_vars

\* some step can be taken (the lookups of a call always end in some way, so
\* a call that can be made either fails or succeeds)
CanStep ==
    \/ CanExport
    \/ CanSkipFK
    \/ CanWalkVisited
    \/ CanWalk
    \/ CanAppendRecord
    \/ CanFinish

(***************************************************************************)
(* The script generator on inputs of its own: GenerateSQL and formatValue  *)
(* are called with any records and values, as the package's tests do.      *)
(***************************************************************************)
\* the strings over the alphabet, up to the length bound
Strings == UNION {[1..n -> Alphabet] : n \in 0..MaxStrLen}

\* the values formatValue is called with: every type lib/pq scans into an
\* interface{}, and one it does not
SqlValues ==
    {NULL, IntV(7), IntV(0 - 3), BoolV(TRUE), BoolV(FALSE),
     FloatV(15), FloatV(0 - 5), FloatV(20), NaN, PosInf, TimeV(75), UintV(7)}
    \cup {StrV(s) : s \in Strings}
    \cup {BytesV(s) : s \in Strings}

\* the values that occur in the records handed to GenerateSQL
SampleValues ==
    {NULL, IntV(7), BoolV(TRUE), StrV(<<"x", Quote>>), StrV(<<Backslash, Quote>>), UintV(7)}

\* a record of table t with id i whose last column holds v
SampleRecord(t, i, v) ==
    [Table |-> t,
     Columns |-> TableColumns(t),
     Values |-> [j \in 1..Len(TableColumns(t)) |->
                    IF j = 1 THEN IntV(i)
                    ELSE IF j = Len(TableColumns(t)) THEN v ELSE NULL]]

RecordSeqs ==
    UNION { { [j \in 1..n |-> SampleRecord(c[j].t, j, c[j].v)]
              : c \in [1..n -> [t : Tables, v : SampleValues]] }
            : n \in 0..MaxRecords }

\* no export command is running
NoCommand ==
    /\ args = [table |-> "zz", idStr |-> <<>>]
    /\ pc = "idle"
    /\ root = [table |-> "", id |-> NULL]
    /\ visited = {}
    /\ records = <<>>
    /\ recordKeys = <<>>
    /\ stack = <<>>
    /\ result = [err |-> FALSE, isNil |-> TRUE, records |-> <<>>]
    /\ warnings = <<>>
    /\ queries = <<>>
    /\ failures = 0
    /\ exitCode = -1
    /\ fileCreated = FALSE
    /\ scriptWritten = FALSE

WalkerIdle == env = BaseEnv /\ dbA = EmptyA /\ NoCommand

\* no script is being generated
GeneratorIdle ==
    /\ sqlRecords = <<>>
    /\ sqlValue = NULL
    /\ script = NoScript
    /\ formatted = <<>>

SqlInit ==
    /\ WalkerIdle
    /\ SessionIdle
    /\ AgentsIdle
    /\ CommandsIdle
    /\ \/ sqlRecords \in RecordSeqs /\ sqlValue = NULL
       \/ sqlRecords = <<>> /\ sqlValue \in SqlValues
    /\ script = NoScript
    /\ formatted = <<>>

\* a call of GenerateSQL(sqlRecords, writer)
RunGenerateSQL ==
    /\ script = NoScript
    /\ script' = GenerateSQL(sqlRecords)
    /\ UNCHANGED <<sqlRecords, sqlValue, formatted>>
    /\ UNCHANGED <<walker, session, agents, commands>>

\* a call of formatValue(sqlValue)
RunFormatValue ==
    /\ formatted = <<>>
    /\ formatted' = formatValue(sqlValue)
    /\ UNCHANGED <<sqlRecords, sqlValue, script>>
    /\ UNCHANGED <<walker, session, agents, commands>>

SqlNext ==
    \/ RunGenerateSQL
    \/ RunFormatValue

SqlSpec == SqlInit /\ [][SqlNext]_vars

(***************************************************************************)
(* One Exporter, several Export calls.  visited and records are fields of  *)
(* the Exporter; every call reads and writes them there.                   *)
(***************************************************************************)
Calls == 1..MaxCalls

\* the records a slice shows
View(arrs, sl) == IF sl.len = 0 THEN <<>> ELSE SubSeq(arrs[sl.arr], 1, sl.len)

\* the capacity append gives a slice of records that has outgrown its array
GrowCap(c) == IF c = 0 THEN 1 ELSE 2 * c

\* append(e.records, rec): written in place while the array has room, else
\* into a new array that starts as a copy of the old one
AppendSlice(arrs, sl, rec) ==
    IF sl.len < sl.cap
    THEN [arrays |-> [arrs EXCEPT ![sl.arr] =
                         IF sl.len < Len(@) THEN [@ EXCEPT ![sl.len + 1] = rec]
                         ELSE Append(@, rec)],
          slice |-> [sl EXCEPT !.len = @ + 1]]
    ELSE [arrays |-> Append(arrs, Append(View(arrs, sl), rec)),
          slice |-> [arr |-> Len(arrs) + 1, len |-> sl.len + 1,
                     cap |-> GrowCap(sl.cap)]]

\* the reset written as e.records = e.records[:0]: the old array is kept
TruncatedRecords(old) == [old EXCEPT !.len = 0]

\* e.records = []Record{}
EmptyRecords(old) == NoSlice

IdleCall ==
    [pc |-> "idle", table |-> "", id |-> NULL, stack |-> <<>>,
     ret |-> [err |-> FALSE, isNil |-> TRUE, slice |-> NoSlice]]

\* the arguments of the calls: a row of table a, or a table without a
\* primary key
SessionRoots == [table : {"a"}, id : {IntV(i) : i \in Ids}]
                    \cup {[table |-> "zz", id |-> IntV(Min)]}

\* schemas in which every lookup has one outcome
SessionScenarios == {BaseEnv, [BaseEnv EXCEPT !.gFirst = TRUE]}

\* the contents of table a: every row present, f NULL, g NULL or the next row
NextId(i) == (i % MaxId) + 1

SessionDatabases ==
    { [i \in Ids |-> [present |-> TRUE, f |-> 0, g |-> gs[i]]]
      : gs \in {h \in [Ids -> 0..MaxId] : \A i \in Ids : h[i] \in {0, NextId(i)}} }

TopOf(p) == calls[p].stack[Len(calls[p].stack)]

Looping(p) ==
    /\ calls[p].pc = "running"
    /\ TopOf(p).i <= Len(TopOf(p).foreignKeys)

FKOf(p) == TopOf(p).foreignKeys[TopOf(p).i]

KeyOf(p) == RecordKey(FKOf(p).ForeignTableName, FkValue(TopOf(p).record, FKOf(p)))

\* Export(table, id): both fields are reset, then the root call of
\* exportRecord marks its key and looks its row up
CallExport(p) ==
    /\ calls[p].pc = "idle"
    /\ \A q \in 1..(p - 1) : calls[q].pc # "idle"
    /\ \E r \in SessionRoots :
         \E o \in Lookups(r.table, r.id) :
           /\ exporter' = [visited |-> {RecordKey(r.table, r.id)},
                           records |-> EmptyRecords(exporter.records)]
           /\ calls' = [calls EXCEPT ![p] =
                          IF o.err # "none"
                          THEN [pc |-> "returned", table |-> r.table, id |-> r.id,
                                stack |-> <<>>,
                                ret |-> [err |-> TRUE, isNil |-> TRUE,
                                         slice |-> NoSlice]]
                          ELSE [@ EXCEPT !.pc = "running", !.table = r.table,
                                         !.id = r.id,
                                         !.stack = <<Frame(r.table, r.id, o)>>]]
    /\ UNCHANGED <<arrays, walker, generator, agents, commands>>

\* a foreign key that is skipped, or whose key e.visited already holds
CallSkip(p) ==
    /\ Looping(p)
    /\ SkipsFK(TopOf(p).record, FKOf(p)) \/ KeyOf(p) \in exporter.visited
    /\ calls' = [calls EXCEPT ![p].stack = Advance(@)]
    /\ UNCHANGED <<exporter, arrays, walker, generator, agents, commands>>

\* the recursive call: it marks its key in e.visited and looks its row up;
\* on an error the caller prints a warning and goes on
CallWalk(p) ==
    /\ Looping(p)
    /\ ~SkipsFK(TopOf(p).record, FKOf(p))
    /\ KeyOf(p) \notin exporter.visited
    /\ exporter' = [exporter EXCEPT !.visited = @ \cup {KeyOf(p)}]
    /\ \E o \in Lookups(FKOf(p).ForeignTableName, FkValue(TopOf(p).record, FKOf(p))) :
         calls' = [calls EXCEPT ![p].stack =
                     IF o.err # "none" THEN Advance(@)
                     ELSE Append(@, Frame(FKOf(p).ForeignTableName,
                                          FkValue(TopOf(p).record, FKOf(p)), o))]
    /\ UNCHANGED <<arrays, walker, generator, agents, commands>>

\* the loop is over: the record is appended to e.records and the call
\* returns, the root call to Export, which returns e.records
CallAppend(p) ==
    /\ calls[p].pc = "running"
    /\ TopOf(p).i > Len(TopOf(p).foreignKeys)
    /\ LET a == AppendSlice(arrays, exporter.records, TopOf(p).record)
       IN  /\ arrays' = a.arrays
           /\ exporter' = [exporter EXCEPT !.records = a.slice]
           /\ calls' = [calls EXCEPT ![p] =
                          IF Len(@.stack) = 1
                          THEN [@ EXCEPT !.pc = "returned", !.stack = <<>>,
                                         !.ret = [err |-> FALSE, isNil |-> FALSE,
                                                  slice |-> a.slice]]
                          ELSE [@ EXCEPT !.stack =
                                   Advance(SubSeq(@, 1, Len(@) - 1))]]
    /\ UNCHANGED <<walker, generator, agents, commands>>

SessionInit ==
    /\ env \in SessionScenarios
    /\ dbA \in SessionDatabases
    /\ NoCommand
    /\ GeneratorIdle
    /\ AgentsIdle
    /\ CommandsIdle
    /\ exporter = [visited |-> {}, records |-> NoSlice]
    /\ arrays = <<>>
    /\ calls = [p \in Calls |-> IdleCall]

NoneRunning == \A q \in Calls : calls[q].pc # "running"

\* the calls made one after another
SeqNext ==
    \E p \in Calls :
      \/ NoneRunning /\ CallExport(p)
      \/ CallSkip(p)
      \/ CallWalk(p)
      \/ CallAppend(p)

SeqSpec == SessionInit /\ [][SeqNext]_vars

\* the calls interleaved at every step
ConcNext ==
    \E p \in Calls :
      \/ CallExport(p)
      \/ CallSkip(p)
      \/ CallWalk(p)
      \/ CallAppend(p)

ConcSpec == SessionInit /\ [][ConcNext]_vars

\* Export on an Exporter of its own, as a function: exportRecord threads
\* the visited set and the records through the traversal
RECURSIVE exportRecord(_, _, _)
RECURSIVE WalkForeignKeys(_, _, _, _)
WalkForeignKeys(rec, fks, i, st) ==
    IF i > Len(fks) THEN st
    ELSE IF SkipsFK(rec, fks[i]) THEN WalkForeignKeys(rec, fks, i + 1, st)
    ELSE WalkForeignKeys(rec, fks, i + 1,
             [exportRecord(fks[i].ForeignTableName, FkValue(rec, fks[i]), st)
                 EXCEPT !.err = FALSE])

exportRecord(t, id, st) ==
    IF RecordKey(t, id) \in st.visited THEN st
    ELSE LET o == CHOOSE x \in Lookups(t, id) : TRUE
             marked == [st EXCEPT !.visited = @ \cup {RecordKey(t, id)}]
         IN  IF o.err # "none" THEN [marked EXCEPT !.err = TRUE]
             ELSE LET after == WalkForeignKeys(o.record, o.foreignKeys, 1, marked)
                  IN  [after EXCEPT !.records = Append(@, o.record)]

AloneResult(t, id) ==
    LET r == exportRecord(t, id, [visited |-> {}, records |-> <<>>, err |-> FALSE])
    IN  ExportResult(r.err, r.records)

\* what the caller of call p holds
ResultOf(p) ==
    [err |-> calls[p].ret.err, isNil |-> calls[p].ret.isNil,
     records |-> View(arrays, calls[p].ret.slice)]


(***************************************************************************)
(* Properties.                                                             *)
(***************************************************************************)
Returned == pc \in {"returned", "done"}

\* Export has just returned its record sequence and no error
Succeeded == pc = "returned" /\ ~result.err

Out == result.records

Positions == 1..Len(Out)

EdgesOf(rec) == {getForeignKeys(rec.Table)[k] : k \in 1..Len(getForeignKeys(rec.Table))}

\* record r references record s through fk: the value of r's column is not
\* NULL and equals the value of the referenced column of s
RefersBy(r, fk, s) ==
    /\ FkValue(r, fk) # NULL
    /\ s.Table = fk.ForeignTableName
    /\ ColIndex(s, fk.ForeignColumnName) # 0
    /\ s.Values[ColIndex(s, fk.ForeignColumnName)] = FkValue(r, fk)

Refers(r, s) == \E fk \in EdgesOf(r) : RefersBy(r, fk, s)

\* the record at position j was fetched for a foreign-key value of the
\* record at position i: the key target-table:value is the key it was
\* walked under
WalkedFor(i, j) ==
    \E fk \in EdgesOf(Out[i]) :
        /\ FkValue(Out[i], fk) # NULL
        /\ RecordKey(fk.ForeignTableName, FkValue(Out[i], fk)) = recordKeys[j]

RECURSIVE WalkClosure(_)
\* the positions reachable from the positions S along WalkedFor
WalkClosure(S) ==
    LET T == S \cup {j \in Positions : \E i \in S : WalkedFor(i, j)}
    IN  IF T = S THEN S ELSE WalkClosure(T)

Uniqueness ==
    pc = "returned" =>
        \A i \in Positions : \A j \in Positions :
            Out[i] = Out[j] => i = j

\* no export marks more keys than this: per table, the NULL key, one key
\* per id as the command line gives it and one per id as the driver does
KeyBudget == Cardinality(RootTables) * (2 * MaxId + 1)

\* the foreign keys a frame has yet to process, and its own return
FrameWork(frame) == Len(frame.foreignKeys) - frame.i + 2

RECURSIVE StackWork(_)
StackWork(st) ==
    IF Len(st) = 0 THEN 0 ELSE FrameWork(st[1]) + StackWork(Tail(st))

\* a new key costs at most one frame with all its foreign keys
KeyWeight == Len(getForeignKeys("a")) + 2

PcRank == CASE pc = "done" -> 0 [] pc = "returned" -> 1 [] OTHER -> 2

\* what is left to do: the keys not yet marked, the open loops, the command
Measure ==
    KeyWeight * (KeyBudget - Cardinality(visited)) + StackWork(stack) + PcRank

\* C3: Export terminates on every database, cyclic or not: every step of the
\* walk lowers a non-negative measure (the keys not yet visited, then the
\* foreign keys left in the open loops), and only the finished command has
\* no next step.
Termination ==
    [][/\ Measure' < Measure
       /\ Measure' >= 0
       /\ (pc' = "done" \/ CanStep')]_vars

\* an export over a foreign-key cycle has come to its end
TerminationWitness ==
    /\ pc = "done"
    /\ ~result.err
    /\ \E i \in Positions : \E j \in Positions :
          WalkedFor(i, j) /\ i \in WalkClosure({j})

\* the rows of the database, as records
AllRecords == UNION {{MakeRecord(t, row) : row \in RowsOf(t)} : t \in Tables}

\* the row the command line names
RootRecords ==
    UNION {fetchRecord(root.table, pkc, root.id) : pkc \in getPrimaryKeyColumn(root.table)}

RECURSIVE ReferenceClosure(_)
\* the rows reachable from the rows S through non-null foreign-key values
ReferenceClosure(S) ==
    LET T == S \cup {s \in AllRecords : \E r \in S : Refers(r, s)}
    IN  IF T = S THEN S ELSE ReferenceClosure(T)

NoLookupFailed == \A k \in 1..Len(queries) : queries[k].status = "ok"

\* C4: when no catalog lookup and no row fetch fails, Export returns exactly
\* the rows reachable from the root row through non-null foreign-key values.
Completeness ==
    (Succeeded /\ NoLookupFailed) =>
        {Out[i] : i \in Positions} = ReferenceClosure(RootRecords)

\* the round trips of the root call: the first ones, at most one per stage
RootLookups == SubSeq(queries, 1, IF Len(queries) < 4 THEN Len(queries) ELSE 4)

\* the root call failed: its table has no primary key the catalog can name,
\* its row does not exist, or a connection error struck one of its lookups
RootFailed ==
    /\ Returned
    /\ \/ getPrimaryKeyColumn(root.table) = {}
       \/ RootRecords = {}
       \/ \E k \in 1..Len(RootLookups) : RootLookups[k].status = "connerr"

\* C5: a failure of the root call is never downgraded: Export returns an
\* error and nil, and the command exits non-zero without creating the
\* output file or writing a script.
RootFailureFatal ==
    RootFailed =>
        /\ result.err /\ result.isNil /\ result.records = <<>>
        /\ pc = "done" => (exitCode # 0 /\ ~fileCreated /\ ~scriptWritten)

\* the command ended after an export whose root row does not exist
RootFailureWitness ==
    /\ pc = "done"
    /\ getPrimaryKeyColumn(root.table) # {}
    /\ RootRecords = {}
    /\ exitCode = 1

\* the lookups that failed in a recursive call (the root's come first)
FailedWalks == {k \in 1..Len(queries) : k > Len(RootLookups) /\ queries[k].status # "ok"}

\* the warnings for a missing row or a table without primary key
SoftWarnings ==
    {k \in 1..Len(warnings) : ~warnings[k].conn /\ warnings[k].err \in {"notfound", "pk"}}

\* C6: a dependency whose row is missing or whose table has no primary key
\* costs a warning and nothing else: each failed walk printed one warning,
\* Export succeeded, the referencing row is in the result and its other
\* foreign keys were walked, and the failed dependency is not in the result.
GracefulDegradation ==
    pc = "returned" =>
        /\ ~RootFailed => Cardinality(FailedWalks) = Len(warnings)
        /\ \A k \in SoftWarnings :
              LET w == warnings[k]
              IN  /\ ~result.err
                  /\ \E i \in Positions : Out[i] = w.from
                  /\ \A fk \in EdgesOf(w.from) :
                        FkValue(w.from, fk) # NULL =>
                            RecordKey(fk.ForeignTableName, FkValue(w.from, fk)) \in visited
                  /\ \A i \in Positions :
                        Out[i].Table = w.ftable =>
                            /\ w.err # "pk"
                            /\ Out[i].Values[ColIndex(Out[i], w.pkColumn)] # w.id

\* Export returned after a dependency row was found missing while the
\* referencing row had another foreign key to walk
GracefulDegradationWitness ==
    /\ pc = "returned"
    /\ \E k \in SoftWarnings :
          /\ warnings[k].err = "notfound"
          /\ \E i \in Positions : Out[i] = warnings[k].from
          /\ \E i \in Positions : WalkedFor(CHOOSE m \in Positions : Out[m] = warnings[k].from, i)

\* C7: a connection error ends the export at once: it is the last round
\* trip issued, and Export returns an error.
ConnectionErrorFatal ==
    \A k \in 1..Len(queries) :
        queries[k].status = "connerr" =>
            /\ k = Len(queries)
            /\ Returned => result.err

\* C8: rows are fetched and exported only from tables whose primary key is
\* a single column; a table with no or a composite primary key is an error.
SingleColumnKeyOnly ==
    /\ \A k \in 1..Len(queries) :
          queries[k].op = "fetch" => Len(PkCols(queries[k].table)) = 1
    /\ \A i \in 1..Len(records) : Len(PkCols(records[i].Table)) = 1

\* C9: a foreign key whose column is missing from the row or holds NULL is
\* passed over: the step that handles it issues no lookup and no fetch,
\* marks no key, prints nothing and adds no record.
NullFKSkipped ==
    [][(InLoop /\ FkValue(Top.record, CurrentFK) = NULL) =>
          /\ queries' = queries
          /\ visited' = visited
          /\ records' = records
          /\ warnings' = warnings
          /\ stack' = Advance(stack)]_vars

\* the loop of some call has just passed a NULL foreign key
NullFKSkippedWitness ==
    /\ pc = "walking" /\ Len(stack) > 0
    /\ Top.i > 1
    /\ FkValue(Top.record, Top.foreignKeys[Top.i - 1]) = NULL
    /\ ColIndex(Top.record, Top.foreignKeys[Top.i - 1].ColumnName) # 0

\* the warning names the dependency of record r through fk: it names the
\* foreign key (source table, column, target table), or it names the target
\* row (a "record not found" for the target table and the value)
NamesDependency(w, r, fk) ==
    \/ /\ w.table = r.Table
       /\ w.column = fk.ColumnName
       /\ w.ftable = fk.ForeignTableName
    \/ /\ w.err = "notfound"
       /\ w.ftable = fk.ForeignTableName
       /\ w.pkColumn = fk.ForeignColumnName
       /\ w.id = FkValue(r, fk)

\* C10: when Export succeeds, every non-null foreign-key value of a record
\* of the result whose target row is not in the result has a warning that
\* names that dependency.
NoSilentAbsence ==
    Succeeded =>
        \A i \in Positions : \A fk \in EdgesOf(Out[i]) :
            (/\ FkValue(Out[i], fk) # NULL
             /\ ~\E j \in Positions : RefersBy(Out[i], fk, Out[j]))
            => \E k \in 1..Len(warnings) : NamesDependency(warnings[k], Out[i], fk)

\* the names of a record's columns, as text
ColumnTexts(rec) == [m \in 1..Len(rec.Columns) |-> ColumnChars(rec.Columns[m])]

\* C11: the script GenerateSQL writes is, for an engine of either setting,
\* one BEGIN, then one INSERT per input record in the order of the input,
\* each naming the record's table and all its columns with as many values
\* and ending with ON CONFLICT DO NOTHING, then one COMMIT, and nothing else.
ScriptStructure ==
    script.written =>
        \A scs \in StandardConformingStrings :
            LET sts == Statements(script.text, scs)
                n == Len(sqlRecords)
            IN  /\ Len(sts) = n + 2
                /\ IsBegin(sts[1])
                /\ IsCommit(sts[n + 2])
                /\ \A j \in 1..n :
                      LET ins == ParseInsert(sts[j + 1])
                      IN  /\ ins.ok
                          /\ ins.table = TableChars(sqlRecords[j].Table)
                          /\ ins.columns = ColumnTexts(sqlRecords[j])
                          /\ Len(ins.values) = Len(sqlRecords[j].Values)
                          /\ ins.onConflict

\* a script was written for two records of different tables, one of them
\* holding a string with a quote in it
ScriptStructureWitness ==
    /\ script.written
    /\ Len(sqlRecords) >= 2
    /\ sqlRecords[1].Table # sqlRecords[2].Table
    /\ \E j \in 1..Len(sqlRecords) : \E m \in 1..Len(sqlRecords[j].Values) :
          /\ sqlRecords[j].Values[m].k = "string"
          /\ \E q \in 1..Len(sqlRecords[j].Values[m].s) : sqlRecords[j].Values[m].s[q] = Quote

\* C13: the literal formatValue makes of a string reads back, under the
\* target engine's grammar for string literals, as that string.
EscapingRoundTrip ==
    (formatted # <<>> /\ sqlValue.k = "string") =>
        \A scs \in StandardConformingStrings :
            Statements(formatted, scs) = <<<<[t |-> "string", s |-> sqlValue.s]>>>>

RECURSIVE Doubled(_)
\* every backslash and every quote twice, every other character once
Doubled(s) ==
    IF Len(s) = 0 THEN <<>>
    ELSE (IF s[1] \in {Backslash, Quote} THEN <<s[1], s[1]>> ELSE <<s[1]>>)
         \o Doubled(Tail(s))

\* C14: escapeSQLString doubles every backslash and every single quote and
\* leaves every other character as it is and where it is; the pass over
\* the quotes does not touch the backslashes the first pass wrote.
EscapeDoubling ==
    sqlValue.k \in {"string", "bytes"} =>
        /\ escapeSQLString(sqlValue.s) = Doubled(sqlValue.s)
        /\ formatted # <<>> => formatted = Quoted(Doubled(sqlValue.s))

\* a string with a backslash next to a quote was formatted
EscapeDoublingWitness ==
    /\ formatted # <<>>
    /\ sqlValue.k = "string"
    /\ \E j \in 1..(Len(sqlValue.s) - 1) :
          sqlValue.s[j] = Backslash /\ sqlValue.s[j + 1] = Quote

\* an optional sign, digits, and at most one point with digits on both sides
IsDecimalLiteral(t) ==
    LET body == IF Len(t) > 0 /\ t[1] = "-" THEN Tail(t) ELSE t
    IN  /\ Len(body) > 0
        /\ \A j \in 1..Len(body) : IsDigit(body[j]) \/ body[j] = "."
        /\ Cardinality({j \in 1..Len(body) : body[j] = "."}) <= 1
        /\ IsDigit(body[1]) /\ IsDigit(body[Len(body)])

\* 'YYYY-MM-DDThh:mm:ssZ'
IsQuotedRFC3339(t) ==
    /\ Len(t) = 22
    /\ t[1] = Quote /\ t[22] = Quote
    /\ \A j \in {2, 3, 4, 5, 7, 8, 10, 11, 13, 14, 16, 17, 19, 20} : IsDigit(t[j])
    /\ t[6] = "-" /\ t[9] = "-" /\ t[12] = "T"
    /\ t[15] = ":" /\ t[18] = ":" /\ t[21] = "Z"

\* C15: formatValue renders by type: nil as NULL, a boolean as true or
\* false, an integer or a float as an unquoted decimal literal, text and
\* binary as a quoted escaped string, a timestamp as a quoted RFC3339
\* literal; only nil becomes NULL and a string is always quoted.
FormatByType ==
    formatted # <<>> =>
        /\ sqlValue.k = "nil" => formatted = NullKeyword
        /\ sqlValue.k # "nil" => formatted # NullKeyword
        /\ sqlValue.k = "bool" =>
              formatted = (IF sqlValue.n = 1 THEN <<"t", "r", "u", "e">> ELSE <<"f", "a", "l", "s", "e">>)
        /\ sqlValue.k \in {"int", "float"} => IsDecimalLiteral(formatted)
        /\ sqlValue.k \in {"string", "bytes"} =>
              formatted = Quoted(escapeSQLString(sqlValue.s))
        /\ sqlValue.k = "time" => IsQuotedRFC3339(formatted)

\* the types the formatter supports
SupportedKinds == {"nil", "int", "float", "bool", "string", "time", "bytes"}

\* the values of unsupported type in the records handed to GenerateSQL
UnsupportedValues ==
    {v \in UNION {{sqlRecords[j].Values[m] : m \in 1..Len(sqlRecords[j].Values)}
                    : j \in 1..Len(sqlRecords)} : v.k \notin SupportedKinds}

\* C16: when a record holds a value of unsupported type GenerateSQL returns
\* an error, and the script holds no statement with that value in it.
UnsupportedTypeFatal ==
    (script.written /\ UnsupportedValues # {}) =>
        /\ script.err
        /\ \A scs \in StandardConformingStrings :
              \A j \in 1..Len(Statements(script.text, scs)) :
                  ~ParseInsert(Statements(script.text, scs)[j]).ok

(***************************************************************************)
(* Replay: the target engine executing a script.  The target has the      *)
(* schema of the source; its foreign keys are checked at the end of each   *)
(* statement, and an error rolls the transaction back.                     *)
(***************************************************************************)
NullCell == [null |-> TRUE, text |-> <<>>]

\* what a column holds after the engine has read a value of the script
StoredValue(tok) ==
    IF tok = Word(NullKeyword) THEN NullCell ELSE [null |-> FALSE, text |-> tok.s]

\* what the column held in the source
SourceValue(v) ==
    IF v = NULL THEN NullCell ELSE [null |-> FALSE, text |-> ParamText(v)]

\* a row of the target: its table and the content of each column
TargetRow(table, columns, cells) ==
    [table |-> table, cells |-> {<<columns[j], cells[j]>> : j \in 1..Len(columns)}]

Cell(row, col) ==
    IF \E c \in row.cells : c[1] = col
    THEN (CHOOSE c \in row.cells : c[1] = col)[2]
    ELSE NullCell

\* the row of the source that a record was fetched from
SourceRow(rec) ==
    TargetRow(TableChars(rec.Table), ColumnTexts(rec),
              [j \in 1..Len(rec.Values) |-> SourceValue(rec.Values[j])])

\* the unique constraints of a table: its primary key, b's column u, and
\* every column a foreign key references
UniqueKeys(t) ==
    (IF Len(PkCols(t)) = 0 THEN {}
     ELSE {{ColumnChars(PkCols(t)[j]) : j \in 1..Len(PkCols(t))}})
    \cup (IF t = "b" THEN {{ColumnChars("u")}} ELSE {})
    \cup {{ColumnChars(getForeignKeys("a")[k].ForeignColumnName)} :
             k \in {m \in 1..Len(getForeignKeys("a")) :
                       getForeignKeys("a")[m].ForeignTableName = t}}

Conflicts(row, t, target) ==
    \E r \in target : \E key \in UniqueKeys(t) :
        /\ r.table = row.table
        /\ \A c \in key : ~Cell(row, c).null /\ Cell(r, c) = Cell(row, c)

\* every foreign key of the new row finds its row, the new row included
ForeignKeysHold(row, t, target) ==
    \A k \in 1..Len(getForeignKeys(t)) :
        LET fk == getForeignKeys(t)[k]
            v == Cell(row, ColumnChars(fk.ColumnName))
        IN  v.null \/ \E r \in target \cup {row} :
                          /\ r.table = TableChars(fk.ForeignTableName)
                          /\ Cell(r, ColumnChars(fk.ForeignColumnName)) = v

\* one statement executed: the rows afterwards, or an error
Execute(st, cur) ==
    IF ~cur.ok \/ IsBegin(st) \/ IsCommit(st) THEN cur
    ELSE LET ins == ParseInsert(st)
             known == ins.ok /\ \E t \in Tables : TableChars(t) = ins.table
             t == CHOOSE t \in Tables : TableChars(t) = ins.table
             row == TargetRow(ins.table, ins.columns,
                              [j \in 1..Len(ins.values) |-> StoredValue(ins.values[j])])
         IN  IF ~known THEN [ok |-> FALSE, rows |-> cur.rows]
             ELSE IF ins.onConflict /\ Conflicts(row, t, cur.rows) THEN cur
             ELSE IF Conflicts(row, t, cur.rows) \/ ~ForeignKeysHold(row, t, cur.rows)
             THEN [ok |-> FALSE, rows |-> cur.rows]
             ELSE [ok |-> TRUE, rows |-> cur.rows \cup {row}]

RECURSIVE ExecuteFrom(_, _, _)
ExecuteFrom(sts, i, cur) ==
    IF i > Len(sts) THEN cur ELSE ExecuteFrom(sts, i + 1, Execute(sts[i], cur))

\* the script applied to a target: whether it succeeded and the rows the
\* target holds afterwards (those it held before when the script failed)
Replay(text, target, scs) ==
    LET end == ExecuteFrom(Statements(text, scs), 1, [ok |-> TRUE, rows |-> target])
    IN  IF end.ok THEN end ELSE [ok |-> FALSE, rows |-> target]

\* the export command has written the script of a successful export
Exported == pc = "done" /\ scriptWritten

ExportedRows == {SourceRow(result.records[j]) : j \in 1..Len(result.records)}

ExportedScript == GenerateSQL(result.records).text

\* a target that holds some of the exported rows, its foreign keys intact
PartialTargets ==
    {P \in SUBSET ExportedRows :
        \A row \in P : \A t \in Tables :
            row.table = TableChars(t) => ForeignKeysHold(row, t, P)}

\* C12: the script of an export applies to an empty target without error
\* and leaves exactly the exported rows with the exported values; applied
\* again, or to a target that holds some of the rows, it raises no error
\* and changes nothing that was there.
ReplayRoundTrip ==
    Exported =>
        \A scs \in StandardConformingStrings :
            LET first == Replay(ExportedScript, {}, scs)
            IN  /\ first.ok
                /\ first.rows = ExportedRows
                /\ Replay(ExportedScript, first.rows, scs) = first
                /\ \A P \in PartialTargets :
                      /\ Replay(ExportedScript, P, scs).ok
                      /\ P \subseteq Replay(ExportedScript, P, scs).rows



(***************************************************************************)
(* Several calls on one Exporter                                           *)
(***************************************************************************)
\* C17: of Export calls made one after another on the same Exporter, each
\* returns what it would return on an Exporter of its own, and what a call
\* returned stays as it was while later calls run.
NoCrossCallSharing ==
    \A p \in Calls :
        calls[p].pc = "returned" =>
            ResultOf(p) = AloneResult(calls[p].table, calls[p].id)

\* two calls have returned records, the later one walking rows that the
\* earlier one had visited
NoCrossCallSharingWitness ==
    /\ calls[1].pc = "returned" /\ calls[2].pc = "returned"
    /\ Len(ResultOf(1).records) > 1
    /\ Len(ResultOf(2).records) > 0
    /\ \A j \in 1..Len(ResultOf(2).records) :
          \E k \in 1..Len(ResultOf(1).records) :
              ResultOf(1).records[k] = ResultOf(2).records[j]


\* C18: when Export calls on the same Exporter are interleaved, each call
\* returns the record sequence it would return when run alone: no record of
\* another call appears in its result and none of its own is missing.
Reentrancy ==
    \A p \in Calls :
        calls[p].pc = "returned" =>
            LET alone == AloneResult(calls[p].table, calls[p].id)
                got == ResultOf(p)
            IN  /\ got.err = alone.err
                /\ Len(got.records) = Len(alone.records)
                /\ \A j \in 1..Len(got.records) : got.records[j] = alone.records[j]


(***************************************************************************)
(* Agent registry: the commands up and down, one at a time.                *)
(***************************************************************************)
\* the agent ids of the command lines
AgentIDs == 1..MaxAgents

Services == {"backend", "frontend"}

\* the host_base values of the configurations
HostBases == {5173, 8000, 8001}

\* .agentenv.yml: for each service the host_base of its port mappings, in
\* order (a service may have none)
Configs == [Services -> {<<>>} \cup {<<b>> : b \in HostBases}]

\* the slots of the agents left out of usedSlots
NoUsedSlots(r) == {}

\* usedSlots of FindNextAvailableSlot
UsedSlots(r) == {r[a].PortSlot : a \in DOMAIN r}

\* for { if !usedSlots[slot] { return slot }; slot++ }
RECURSIVE ScanFrom(_, _)
ScanFrom(usedSlots, slot) ==
    IF slot \notin usedSlots THEN slot ELSE ScanFrom(usedSlots, slot + 1)

\* the scan started behind the number of slots in use
FindSlotAfterLast(r) ==
    ScanFrom(UsedSlots(r), Cardinality(UsedSlots(r)) + 1)

\* FindNextAvailableSlot: the scan from slot 1
FindNextAvailableSlot(r) == ScanFrom(UsedSlots(r), 1)

\* GetAllPorts: the first host_base of each service that has one, plus the slot
GetAllPorts(c, agentID) ==
    [sv \in {x \in Services : Len(c[x]) > 0} |-> c[sv][1] + agentID]

\* r.Agents[agentID] = agent
PutAgent(r, agentID, ports, portSlot) ==
    [a \in DOMAIN r \cup {agentID} |->
        IF a = agentID THEN [Ports |-> ports, PortSlot |-> portSlot] ELSE r[a]]

\* the agent stored without the check that the id is new
AllocateAgentOverwriting(r, agentID, ports, portSlot) ==
    [err |-> FALSE, Agents |-> PutAgent(r, agentID, ports, portSlot)]

\* AllocateAgent: an error when the id exists, else the agent is stored
AllocateAgent(r, agentID, ports, portSlot) ==
    IF agentID \in DOMAIN r THEN [err |-> TRUE, Agents |-> r]
    ELSE [err |-> FALSE, Agents |-> PutAgent(r, agentID, ports, portSlot)]

NoAgent == [Ports |-> <<>>, PortSlot |-> 0]

\* GetAgent: an error when the id is not in the registry
GetAgent(r, agentID) ==
    IF agentID \notin DOMAIN r THEN [err |-> TRUE, agent |-> NoAgent]
    ELSE [err |-> FALSE, agent |-> r[agentID]]

\* RemoveAgent: an error when the id is not in the registry, else delete
RemoveAgent(r, agentID) ==
    IF agentID \notin DOMAIN r THEN [err |-> TRUE, Agents |-> r]
    ELSE [err |-> FALSE, Agents |-> [a \in DOMAIN r \ {agentID} |-> r[a]]]

Outcome(cmd, agentID, err) == [cmd |-> cmd, agentID |-> agentID, err |-> err]

\* agentenv up: the registry is loaded, the slot found, the ports computed
\* and the agent allocated (an error when the id exists); the worktree, the
\* override file, the env patches and the containers follow, each of which
\* may fail; the registry is saved last
runUp ==
    \E agentID \in AgentIDs, ok \in BOOLEAN :
        LET portSlot == FindNextAvailableSlot(registry)
            ports == GetAllPorts(config, portSlot)
            allocated == AllocateAgent(registry, agentID, ports, portSlot)
        IN  /\ registry' = IF allocated.err \/ ~ok THEN registry
                           ELSE allocated.Agents
            /\ outcome' = Outcome("up", agentID,
                                  IF allocated.err THEN "exists"
                                  ELSE IF ~ok THEN "failed" ELSE "none")
            /\ UNCHANGED <<config, procs, worktrees, services,
                           walker, generator, session>>

\* agentenv down: an error when the agent is not in the registry; else the
\* cleanup steps run, the agent is removed and the registry saved, which
\* may fail
runDown ==
    \E agentID \in AgentIDs, saved \in BOOLEAN :
        LET found == GetAgent(registry, agentID)
            removed == RemoveAgent(registry, agentID)
        IN  /\ registry' = IF found.err \/ removed.err \/ ~saved THEN registry
                           ELSE removed.Agents
            /\ outcome' = Outcome("down", agentID,
                                  IF found.err THEN "notfound"
                                  ELSE IF removed.err \/ ~saved THEN "failed"
                                  ELSE "none")
            /\ UNCHANGED <<config, procs, worktrees, services,
                           walker, generator, session>>

RegInit ==
    /\ WalkerIdle
    /\ GeneratorIdle
    /\ SessionIdle
    /\ CommandsIdle
    /\ registry = <<>>
    /\ config \in Configs

RegNext == runUp \/ runDown

RegSpec == RegInit /\ [][RegNext]_vars

\* C19: FindNextAvailableSlot returns the smallest slot from 1 up that no
\* agent of the registry holds, so a slot freed by RemoveAgent is the next
\* one handed out unless a lower one is free; the scan ends after at most
\* one step per agent.
GapFilling ==
    LET s == FindNextAvailableSlot(registry)
    IN  /\ s >= 1
        /\ s \notin UsedSlots(registry)
        /\ \A t \in 1..(s - 1) : t \in UsedSlots(registry)
        /\ s <= Cardinality(DOMAIN registry) + 1

\* an agent was removed while an agent with a higher slot stays: the freed
\* slot is the next one
GapFillingWitness ==
    \E k \in 1..MaxAgents :
        /\ k \notin UsedSlots(registry)
        /\ \E a \in DOMAIN registry : registry[a].PortSlot > k
        /\ FindNextAvailableSlot(registry) = k

\* the (agent, service) pairs with a recorded host port
Recorded == {<<a, sv>> : a \in DOMAIN registry, sv \in Services}
                \cap {x \in AgentIDs \X Services : x[2] \in DOMAIN registry[x[1]].Ports}

\* C20: after any sequence of up and down commands the host ports recorded
\* in the registry are pairwise distinct over the (agent, service) pairs,
\* each the service's host_base plus the agent's slot, whatever the base
\* ports of the configuration.
ZeroPortConflicts ==
    /\ \A x \in Recorded :
          registry[x[1]].Ports[x[2]] = config[x[2]][1] + registry[x[1]].PortSlot
    /\ \A x \in Recorded, y \in Recorded :
          x # y => registry[x[1]].Ports[x[2]] # registry[y[1]].Ports[y[2]]


\* what the three functions do with the ids the registry holds and with
\* those it does not
RejectsAtOnce ==
    \A id \in AgentIDs :
        IF id \in DOMAIN registry
        THEN \A slot \in 1..(MaxAgents + 1) :
                AllocateAgent(registry, id, GetAllPorts(config, slot), slot)
                    = [err |-> TRUE, Agents |-> registry]
        ELSE /\ RemoveAgent(registry, id) = [err |-> TRUE, Agents |-> registry]
             /\ GetAgent(registry, id).err

\* a command naming an id the registry holds (up) or does not hold (down)
RejectedCommand ==
    /\ outcome'.cmd = "up" /\ outcome'.agentID \in DOMAIN registry =>
          outcome'.err = "exists" /\ registry' = registry
    /\ outcome'.cmd = "down" /\ outcome'.agentID \notin DOMAIN registry =>
          outcome'.err = "notfound" /\ registry' = registry

\* C21: AllocateAgent with an id that is in the registry returns an error
\* and leaves the registry as it is, the existing entry included; RemoveAgent
\* and GetAgent with an id that is not in the registry return an error and
\* leave the registry as it is.
DuplicateAndUnknownRejected == []RejectsAtOnce /\ [][RejectedCommand]_vars

\* up was refused for an id the registry holds, next to a free id
DuplicateAndUnknownRejectedWitness ==
    /\ outcome = Outcome("up", outcome.agentID, "exists")
    /\ outcome.agentID \in DOMAIN registry
    /\ \E id \in AgentIDs : id \notin DOMAIN registry


(***************************************************************************)
(* The commands up and down step by step: what each step reads and writes  *)
(* of the registry file, the worktrees and the Docker services.            *)
(***************************************************************************)
Procs == 1..MaxProcs

\* the two agent names typed at the terminal
ProcAgents == {1, 2}

\* cleanup.archive_database, --skip-archive, cleanup.remove_volumes and
\* --keep-worktree
Flags ==
    [archiveDatabase : BOOLEAN, skipArchive : BOOLEAN,
     removeVolumes : BOOLEAN, keepWorktree : BOOLEAN]

NoFlags ==
    [archiveDatabase |-> FALSE, skipArchive |-> FALSE,
     removeVolumes |-> FALSE, keepWorktree |-> FALSE]

IdleProc ==
    [cmd |-> "", pc |-> "idle", agentID |-> 0, reg |-> <<>>, portSlot |-> 0,
     flags |-> NoFlags, log |-> <<>>, err |-> ""]

\* the base ports of the README's example
ExampleConfig == [backend |-> <<8000>>, frontend |-> <<5173>>]

\* one entry of cleanupLog
Logged(step, ok) == [step |-> step, status |-> IF ok THEN "SUCCESS" ELSE "FAILED"]

Skipped(step) == [step |-> step, status |-> "SKIPPED"]

\* return fmt.Errorf(...)
Fail(proc, err) == [proc EXCEPT !.pc = "done", !.err = err]

\* up, steps 1 to 6: the configuration and the registry file are loaded,
\* the slot found, the ports computed and the agent allocated in memory
UpAllocate(p, agentID) ==
    /\ procs[p].pc \in {"idle", "done"}
    /\ LET portSlot == FindNextAvailableSlot(registry)
           allocated == AllocateAgent(registry, agentID,
                                      GetAllPorts(config, portSlot), portSlot)
           started == [IdleProc EXCEPT !.cmd = "up", !.agentID = agentID,
                                       !.reg = registry]
       IN  procs' = [procs EXCEPT ![p] =
                        IF allocated.err THEN Fail(started, "exists")
                        ELSE [started EXCEPT !.pc = "worktree",
                                             !.reg = allocated.Agents,
                                             !.portSlot = portSlot]]
    /\ UNCHANGED <<registry, config, outcome, worktrees, services>>
    /\ UNCHANGED <<walker, generator, session>>

\* up, step 7: CreateWorktree, an error when the path exists
UpWorktree(p) ==
    /\ procs[p].pc = "worktree"
    /\ \E ok \in BOOLEAN :
         IF ok /\ procs[p].agentID \notin worktrees
         THEN /\ worktrees' = worktrees \cup {procs[p].agentID}
              /\ procs' = [procs EXCEPT ![p].pc = "override"]
         ELSE /\ procs' = [procs EXCEPT ![p] = Fail(@, "worktree")]
              /\ UNCHANGED worktrees
    /\ UNCHANGED <<registry, config, outcome, services>>
    /\ UNCHANGED <<walker, generator, session>>

\* up, steps 8 and 9: the override file and the env patches
UpOverride(p) ==
    /\ procs[p].pc = "override"
    /\ \E ok \in BOOLEAN :
         procs' = [procs EXCEPT ![p] =
                     IF ok THEN [@ EXCEPT !.pc = "start"] ELSE Fail(@, "override")]
    /\ UNCHANGED <<registry, config, outcome, worktrees, services>>
    /\ UNCHANGED <<walker, generator, session>>

\* up, steps 10 to 13: docker-compose up -d; when it fails some of the
\* services may be running
UpStart(p) ==
    /\ procs[p].pc = "start"
    /\ \E ok \in BOOLEAN, running \in BOOLEAN :
         /\ procs' = [procs EXCEPT ![p] =
                        IF ok THEN [@ EXCEPT !.pc = "save"] ELSE Fail(@, "start")]
         /\ services' = IF ok \/ running THEN services \cup {procs[p].agentID}
                        ELSE services
    /\ UNCHANGED <<registry, config, outcome, worktrees>>
    /\ UNCHANGED <<walker, generator, session>>

\* up, step 14: Save writes the registry held in memory over the file
UpSave(p) ==
    /\ procs[p].pc = "save"
    /\ \E ok \in BOOLEAN :
         IF ok
         THEN /\ registry' = procs[p].reg
              /\ procs' = [procs EXCEPT ![p] = [@ EXCEPT !.pc = "done", !.err = "none"]]
         ELSE /\ procs' = [procs EXCEPT ![p] = Fail(@, "save")]
              /\ UNCHANGED registry
    /\ UNCHANGED <<config, outcome, worktrees, services>>
    /\ UNCHANGED <<walker, generator, session>>

\* down, steps 1 to 3: the flags are read, the configuration and the
\* registry file loaded and the agent looked up
DownGet(p, agentID) ==
    /\ procs[p].pc \in {"idle", "done"}
    /\ \E flags \in Flags :
         LET started == [IdleProc EXCEPT !.cmd = "down", !.agentID = agentID,
                                         !.reg = registry, !.flags = flags]
         IN  procs' = [procs EXCEPT ![p] =
                          IF GetAgent(registry, agentID).err
                          THEN Fail(started, "notfound")
                          ELSE [started EXCEPT !.pc = "archive"]]
    /\ UNCHANGED <<registry, config, outcome, worktrees, services>>
    /\ UNCHANGED <<walker, generator, session>>

\* down, step 4: the database archive, when enabled and not skipped
DownArchive(p) ==
    /\ procs[p].pc = "archive"
    /\ \E ok \in BOOLEAN :
         procs' = [procs EXCEPT ![p] =
                     [@ EXCEPT !.pc = "stop",
                               !.log = Append(@,
                                   IF procs[p].flags.archiveDatabase
                                        /\ ~procs[p].flags.skipArchive
                                   THEN Logged("archive", ok)
                                   ELSE Skipped("archive"))]]
    /\ UNCHANGED <<registry, config, outcome, worktrees, services>>
    /\ UNCHANGED <<walker, generator, session>>

\* the failure to stop the services returned as an error
DownStopFatal(p) ==
    /\ procs[p].pc = "stop"
    /\ \E ok \in BOOLEAN :
         /\ procs' = [procs EXCEPT ![p] =
                        IF ok THEN [@ EXCEPT !.pc = "volumes",
                                             !.log = Append(@, Logged("stop", ok))]
                        ELSE Fail([@ EXCEPT !.log = Append(@, Logged("stop", ok))],
                                  "stop")]
         /\ services' = IF ok THEN services \ {procs[p].agentID} ELSE services
    /\ UNCHANGED <<registry, config, outcome, worktrees>>
    /\ UNCHANGED <<walker, generator, session>>

\* down, step 5: docker-compose down
DownStop(p) ==
    /\ procs[p].pc = "stop"
    /\ \E ok \in BOOLEAN :
         /\ procs' = [procs EXCEPT ![p] =
                        [@ EXCEPT !.pc = "volumes",
                                  !.log = Append(@, Logged("stop", ok))]]
         /\ services' = IF ok THEN services \ {procs[p].agentID} ELSE services
    /\ UNCHANGED <<registry, config, outcome, worktrees>>
    /\ UNCHANGED <<walker, generator, session>>

\* down, step 6: docker-compose down -v, when enabled
DownVolumes(p) ==
    /\ procs[p].pc = "volumes"
    /\ \E ok \in BOOLEAN :
         IF procs[p].flags.removeVolumes
         THEN /\ procs' = [procs EXCEPT ![p] =
                             [@ EXCEPT !.pc = "rmworktree",
                                       !.log = Append(@, Logged("volumes", ok))]]
              /\ services' = IF ok THEN services \ {procs[p].agentID} ELSE services
         ELSE /\ procs' = [procs EXCEPT ![p] =
                             [@ EXCEPT !.pc = "rmworktree",
                                       !.log = Append(@, Skipped("volumes"))]]
              /\ UNCHANGED services
    /\ UNCHANGED <<registry, config, outcome, worktrees>>
    /\ UNCHANGED <<walker, generator, session>>

\* down, steps 7 and 8: the permissions are fixed and the worktree is
\* removed, unless it is kept
DownWorktree(p) ==
    /\ procs[p].pc = "rmworktree"
    /\ \E ok \in BOOLEAN :
         IF ~procs[p].flags.keepWorktree
         THEN /\ procs' = [procs EXCEPT ![p] =
                             [@ EXCEPT !.pc = "registry",
                                       !.log = Append(@, Logged("worktree", ok))]]
              /\ worktrees' = IF ok THEN worktrees \ {procs[p].agentID} ELSE worktrees
         ELSE /\ procs' = [procs EXCEPT ![p] =
                             [@ EXCEPT !.pc = "registry",
                                       !.log = Append(@, Skipped("worktree"))]]
              /\ UNCHANGED worktrees
    /\ UNCHANGED <<registry, config, outcome, services>>
    /\ UNCHANGED <<walker, generator, session>>

\* down, step 9: RemoveAgent in memory, then Save over the file
DownRegistry(p) ==
    /\ procs[p].pc = "registry"
    /\ \E saved \in BOOLEAN :
         LET removed == RemoveAgent(procs[p].reg, procs[p].agentID)
             ok == ~removed.err /\ saved
         IN  /\ procs' = [procs EXCEPT ![p] =
                            [@ EXCEPT !.pc = "done",
                                      !.err = IF ok THEN "none" ELSE "registry",
                                      !.reg = removed.Agents,
                                      !.log = Append(@, Logged("registry", ok))]]
             /\ registry' = IF ok THEN removed.Agents ELSE registry
    /\ UNCHANGED <<config, outcome, worktrees, services>>
    /\ UNCHANGED <<walker, generator, session>>

CmdInit ==
    /\ WalkerIdle
    /\ GeneratorIdle
    /\ SessionIdle
    /\ registry = <<>>
    /\ config = ExampleConfig
    /\ outcome = NoOutcome
    /\ procs = [p \in Procs |-> IdleProc]
    /\ worktrees = {}
    /\ services = {}

\* the commands typed one after another at one terminal
CmdNext ==
    \/ \E agentID \in ProcAgents : UpAllocate(1, agentID)
    \/ UpWorktree(1)
    \/ UpOverride(1)
    \/ UpStart(1)
    \/ UpSave(1)
    \/ \E agentID \in ProcAgents : DownGet(1, agentID)
    \/ DownArchive(1)
    \/ DownStop(1)
    \/ DownVolumes(1)
    \/ DownWorktree(1)
    \/ DownRegistry(1)

CmdSpec == CmdInit /\ [][CmdNext]_vars



\* the down commands that found their agent and ran to the end
TornDown(p) ==
    /\ procs[p].cmd = "down"
    /\ procs[p].pc = "done"
    /\ procs[p].err # "notfound"

StepsOf(log) == [j \in 1..Len(log) |-> log[j].step]

TeardownSteps == <<"archive", "stop", "volumes", "worktree", "registry">>

Attempted(entry) == entry.status # "SKIPPED"

\* a down command on its way: the steps so far are the first steps of the
\* teardown, in its order
InTeardownOrder(p) ==
    procs[p].cmd = "down" =>
        /\ Len(procs[p].log) <= Len(TeardownSteps)
        /\ StepsOf(procs[p].log) = SubSeq(TeardownSteps, 1, Len(procs[p].log))

\* the registry step is reached whatever became of the steps before it, and
\* when it succeeds the agent is gone from the registry file
RegistryLast(p) ==
    TornDown(p) =>
        /\ StepsOf(procs[p].log) = TeardownSteps
        /\ Attempted(procs[p].log[5])
        /\ procs[p].err = "none" <=> procs[p].log[5].status = "SUCCESS"
        /\ procs[p].err = "none" => procs[p].agentID \notin DOMAIN registry

\* C22: down for an agent of the registry attempts the archive (when enabled
\* and not skipped), then stops the services, then removes the volumes, then
\* removes the worktree, and removes the registry entry and saves last; a
\* failure of one of the first four is a warning only.
TeardownOrder ==
    \A p \in Procs :
        /\ InTeardownOrder(p)
        /\ RegistryLast(p)
        /\ TornDown(p) =>
              /\ Attempted(procs[p].log[1]) <=>
                    procs[p].flags.archiveDatabase /\ ~procs[p].flags.skipArchive
              /\ Attempted(procs[p].log[2])
              /\ Attempted(procs[p].log[3])
              /\ Attempted(procs[p].log[4])

\* C22 as the code has it: the volumes are removed when cleanup.remove_volumes
\* is set and the worktree unless --keep-worktree is given; the order of the
\* steps taken, the registry step last, and failures being warnings stand.
TeardownOrderUnlessDisabled ==
    \A p \in Procs :
        /\ InTeardownOrder(p)
        /\ RegistryLast(p)
        /\ TornDown(p) =>
              /\ Attempted(procs[p].log[1]) <=>
                    procs[p].flags.archiveDatabase /\ ~procs[p].flags.skipArchive
              /\ Attempted(procs[p].log[2])
              /\ Attempted(procs[p].log[3]) <=> procs[p].flags.removeVolumes
              /\ Attempted(procs[p].log[4]) <=> ~procs[p].flags.keepWorktree

\* a teardown in which each of the first four steps was attempted and
\* failed, and the registry entry was removed all the same
TeardownOrderWitness ==
    \E p \in Procs :
        /\ TornDown(p)
        /\ \A j \in 1..4 : procs[p].log[j].status = "FAILED"
        /\ procs[p].err = "none"
        /\ procs[p].agentID \notin DOMAIN registry



\* up commands for different agent names, each run once, their steps
\* interleaved
RaceNext ==
    \E p \in Procs :
        \/ procs[p].pc = "idle" /\ UpAllocate(p, p)
        \/ UpWorktree(p)
        \/ UpOverride(p)
        \/ UpStart(p)
        \/ UpSave(p)

RaceSpec == CmdInit /\ [][RaceNext]_vars

Launched(p) == procs[p].cmd = "up" /\ procs[p].pc = "done" /\ procs[p].err = "none"

\* C29: two up commands for different agent names that run at the same time
\* against one registry file end with different port slots, and the saved
\* registry holds both agents: no entry is lost, no slot handed out twice.
ConcurrentUpsKeepBoth ==
    \A p \in Procs, q \in Procs :
        p # q /\ Launched(p) /\ Launched(q) =>
            /\ procs[p].portSlot # procs[q].portSlot
            /\ procs[p].agentID \in DOMAIN registry
            /\ procs[q].agentID \in DOMAIN registry

\* C30: when up returns an error, no worktree and no started services of
\* its agent exist that the saved registry does not hold.
NoUntrackedResources ==
    \A p \in Procs :
        procs[p].cmd = "up" /\ procs[p].pc = "done" /\ procs[p].err # "none" =>
            (procs[p].agentID \in worktrees \cup services =>
                procs[p].agentID \in DOMAIN registry)



\* C28: after any sequence of up and down commands run one at a time from
\* an empty registry, no two agents of the registry have the same PortSlot
\* and every PortSlot is at least 1.
DistinctSlots ==
    /\ \A a \in DOMAIN registry : registry[a].PortSlot >= 1
    /\ \A a \in DOMAIN registry, b \in DOMAIN registry :
          a # b => registry[a].PortSlot # registry[b].PortSlot

\* up has just given an agent a slot below the slot of an agent that was
\* there before: a freed slot handed out again
DistinctSlotsWitness ==
    /\ outcome.cmd = "up" /\ outcome.err = "none"
    /\ outcome.agentID \in DOMAIN registry
    /\ \E b \in DOMAIN registry :
          registry[b].PortSlot > registry[outcome.agentID].PortSlot



(***************************************************************************)
(* The walk: edges, keys and lookups                                       *)
(***************************************************************************)
\* C23: the row fetched for a foreign-key edge that is walked is the row of
\* the target table whose referenced column (ForeignColumnName) holds the
\* foreign-key value, also when that column is not the primary key.
FetchedByReferencedColumn ==
    pc = "walking" =>
        \A d \in 2..Len(stack) :
            RefersBy(stack[d - 1].record,
                     stack[d - 1].foreignKeys[stack[d - 1].i],
                     stack[d].record)

\* the record was the answer to a row fetch of this export
FetchedInCall(rec) ==
    \E k \in 1..Len(queries) :
        /\ queries[k].op = "fetch" /\ queries[k].status = "ok"
        /\ queries[k].table = rec.Table
        /\ \E pkc \in getPrimaryKeyColumn(rec.Table) :
              rec \in fetchRecord(rec.Table, pkc, queries[k].id)

\* C24: a successful Export returns a sequence that is not empty and ends
\* with the root row, so the command never takes its branch for an empty
\* result; every record of the sequence was fetched during the call.
RootLast ==
    (Returned /\ ~result.err) =>
        /\ Len(Out) > 0
        /\ Out[Len(Out)] \in RootRecords
        /\ \A i \in Positions : FetchedInCall(Out[i])
        /\ pc = "done" => exitCode = IF scriptWritten THEN 0 ELSE 1

\* an export of a root row with a dependency has come to its end
RootLastWitness ==
    /\ pc = "done" /\ ~result.err
    /\ Len(Out) > 1
    /\ scriptWritten
    /\ WalkedFor(Len(Out), 1)



\* the round trips of one kind
QueriesOf(op) == {k \in 1..Len(queries) : queries[k].op = op}

\* every call that got past the visited check marked a key of its own and
\* asked for the primary key once; no row was asked for twice
LookedUpOnce ==
    pc # "start" =>
        /\ Cardinality(QueriesOf("pk")) = Cardinality(visited)
        /\ \A k \in QueriesOf("fetch"), m \in QueriesOf("fetch") :
              (queries[k].table = queries[m].table /\ queries[k].id = queries[m].id)
                  => k = m

\* one step of the walk: marked keys stay marked; an edge to a marked key,
\* failed or not, costs nothing; a failed call adds its warning and no record
VisitedOnce ==
    /\ pc = "walking" => visited \subseteq visited'
    /\ (CanWalkVisited /\ pc' = "walking") =>
          /\ queries' = queries
          /\ records' = records
          /\ warnings' = warnings
          /\ stack' = Advance(stack)
    /\ (pc = "walking" /\ warnings' # warnings) =>
          /\ records' = records
          /\ stack' = Advance(stack)
          /\ RecordKey(CalleeTable, CalleeId) \in visited'

\* C25: within one Export the catalog lookups and the row fetch of a key
\* happen at most once: a key whose walk failed stays visited, every later
\* edge to it returns at once with no fetch, no record and no warning, and
\* a failed walk leaves no record.
AtMostOnePerKey == []LookedUpOnce /\ [][VisitedOnce]_vars

\* a row refers twice to a row that is missing: one warning, and the second
\* edge found the key visited
AtMostOnePerKeyWitness ==
    /\ pc = "returned" /\ ~result.err
    /\ Len(warnings) = 1
    /\ warnings[1].err = "notfound"
    /\ \A fk \in EdgesOf(warnings[1].from) :
          /\ fk.ForeignTableName = warnings[1].ftable
          /\ FkValue(warnings[1].from, fk) = warnings[1].id



\* the foreign keys of a table in the order the walk takes them, or in the
\* opposite order
Reversed(fks) == [j \in 1..Len(fks) |-> fks[Len(fks) + 1 - j]]

\* Export as a function of the order in which the loop of exportRecord
\* takes the foreign keys, with no connection error: the keys visited and,
\* side by side, the records appended and their keys
RECURSIVE exportRecordIn(_, _, _, _)
RECURSIVE WalkIn(_, _, _, _, _)
WalkIn(opposite, rec, fks, i, st) ==
    IF i > Len(fks) THEN st
    ELSE IF SkipsFK(rec, fks[i]) THEN WalkIn(opposite, rec, fks, i + 1, st)
    ELSE WalkIn(opposite, rec, fks, i + 1,
             [exportRecordIn(opposite, fks[i].ForeignTableName,
                             FkValue(rec, fks[i]), st) EXCEPT !.err = FALSE])

exportRecordIn(opposite, t, id, st) ==
    IF RecordKey(t, id) \in st.visited THEN st
    ELSE LET o == CHOOSE x \in Lookups(t, id) : ~x.conn
             marked == [st EXCEPT !.visited = @ \cup {RecordKey(t, id)}]
         IN  IF o.err # "none" THEN [marked EXCEPT !.err = TRUE]
             ELSE LET fks == IF opposite THEN Reversed(o.foreignKeys)
                                         ELSE o.foreignKeys
                      after == WalkIn(opposite, o.record, fks, 1, marked)
                  IN  [after EXCEPT !.records = Append(@, o.record),
                                    !.keys = Append(@, RecordKey(t, id))]

ExportIn(opposite) ==
    exportRecordIn(opposite, root.table, root.id,
                   [visited |-> {}, records |-> <<>>, keys |-> <<>>, err |-> FALSE])

NoConnectionError == \A k \in 1..Len(queries) : queries[k].status # "connerr"

Elements(seq) == {seq[j] : j \in 1..Len(seq)}

PositionIn(seq, x) == CHOOSE j \in 1..Len(seq) : seq[j] = x

\* the records at positions i and j come in the other order when the
\* foreign keys are taken in the opposite order
Swapped(other, i, j) ==
    (i < j) # (PositionIn(other.keys, recordKeys[i]) < PositionIn(other.keys, recordKeys[j]))

\* the two orders give the same keys and the same set of records
SameRecords(other) ==
    /\ ~other.err
    /\ Elements(other.keys) = Elements(recordKeys)
    /\ Elements(other.records) = Elements(Out)
    /\ Len(other.records) = Len(Out)

Walks == {[table |-> queries[k].table, id |-> queries[k].id] : k \in QueriesOf("fetch")}

\* the same row: the same table and the same value of the primary key as
\* the database compares it
SameRow(w1, w2) == w1.table = w2.table /\ ParamText(w1.id) = ParamText(w2.id)

\* C27: two walks get the same visited key if and only if they name the
\* same table and the same primary-key value, in whatever representation
\* the id arrives (from the command line or from the driver).
KeyIdentifiesRow ==
    \A w1 \in Walks, w2 \in Walks :
        (RecordKey(w1.table, w1.id) = RecordKey(w2.table, w2.id)) <=> SameRow(w1, w2)

=============================================================================
